---- MODULE Spec2Model ----
(***************************************************************************)
(* git-util: a branch cleaner (root command), a multi-repository status    *)
(* command and a multi-repository sync command, with the helpers of        *)
(* pkg/gitops (RunGitCommand, DetectDefaultMainBranch, FindGitRepos).      *)
(*                                                                         *)
(* Strings are TLA+ strings, handled with Len, SubSeq and \o.  A path is   *)
(* the sequence of its components (<<"w", "a">> is /w/a).  The git binary  *)
(* and the file system are the environment: a git call's exit status,      *)
(* stdout and stderr are chosen by the action that makes the call, and the *)
(* directory tree is built by the environment before the command starts.   *)
(***************************************************************************)
EXTENDS Integers, Sequences, FiniteSets, TLC

VARIABLES
    cmd,                \* which entry point runs: "clean", "status", "sync", "locate", "run"
    pc,                 \* position of the handler
    fs,                 \* file system: path -> "dir" | "file" | "noperm"
    root,               \* the directory the scan is asked for
    flags,              \* the cobra flag variables
    targetDir,          \* status/sync: targetDir after Getwd/Abs
    action,             \* sync: strings.ToLower(syncAction)
    repos,              \* result of FindGitRepos
    visited,            \* paths the WalkDir callback was called on, in order
    idx,                \* loop index of the handler's range loop
    calls,              \* git subprocesses run so far: arguments and what the process did
    stdoutLines,        \* lines printed to stdout
    stderrLines,        \* lines printed to stderr
    successCount,
    failCount,
    targetMainBranch,   \* clean: branch the listing is taken against
    branchesToProcess,  \* clean: candidate list after the filter
    isDirty,            \* status: dirty flag of the repository being processed
    records,            \* status: one entry per printed status line
    runErr,             \* error returned by RunE ("" = nil)
    exitCode            \* process exit status set by Execute (-1 while running)

vars == <<cmd, pc, fs, root, flags, targetDir, action, repos, visited, idx, calls,
          stdoutLines, stderrLines, successCount, failCount, targetMainBranch,
          branchesToProcess, isDirty, records, runErr, exitCode>>

(***************************************************************************)
(* Bounds of the model.                                                    *)
(***************************************************************************)
MaxNodes == 3       \* entries created beneath the scan root
MaxDepth == 3       \* depth of an entry beneath the scan root
MaxListing == 4     \* characters of a generated branch listing
MaxCount == 2       \* largest generated ahead/behind count

(***************************************************************************)
(* Strings (package strings).                                              *)
(***************************************************************************)
CharAt(s, i) == SubSeq(s, i, i)

\* unicode.IsSpace for the characters of the model
IsSpace(c) == c \in {" ", "\t", "\n", "\r", "\f"}

RECURSIVE TrimLeft(_)
TrimLeft(s) ==
    IF Len(s) > 0 /\ IsSpace(CharAt(s, 1)) THEN TrimLeft(SubSeq(s, 2, Len(s))) ELSE s

RECURSIVE TrimRight(_)
TrimRight(s) ==
    IF Len(s) > 0 /\ IsSpace(CharAt(s, Len(s)))
    THEN TrimRight(SubSeq(s, 1, Len(s) - 1)) ELSE s

\* strings.TrimSpace
TrimSpace(s) == TrimRight(TrimLeft(s))

\* strings.HasPrefix
HasPrefix(s, p) == Len(s) >= Len(p) /\ SubSeq(s, 1, Len(p)) = p

\* strings.Contains
Contains(s, sub) ==
    \E i \in 1..(Len(s) - Len(sub) + 1) : SubSeq(s, i, i + Len(sub) - 1) = sub

\* strings.Split(s, sep) for a one-character separator: always at least one field
RECURSIVE SplitFrom(_, _, _, _)
SplitFrom(s, sep, i, cur) ==
    IF i > Len(s) THEN <<cur>>
    ELSE IF CharAt(s, i) = sep THEN <<cur>> \o SplitFrom(s, sep, i + 1, "")
    ELSE SplitFrom(s, sep, i + 1, cur \o CharAt(s, i))

Split(s, sep) == SplitFrom(s, sep, 1, "")

\* strings.Join
RECURSIVE Join(_, _)
Join(elems, sep) ==
    IF Len(elems) = 0 THEN ""
    ELSE IF Len(elems) = 1 THEN elems[1]
    ELSE elems[1] \o sep \o Join(Tail(elems), sep)

\* the capital letters and, at the same positions, the small letters
UpperLetters == "ABCDEFGHIJKLMNOPQRSTUVWXYZ"

LowerLetters == "abcdefghijklmnopqrstuvwxyz"

\* unicode.ToLower on the characters of a command line: a capital letter
\* gives its small letter, every other character is kept
LowerOf(c) ==
    IF \E k \in 1..Len(UpperLetters) : CharAt(UpperLetters, k) = c
    THEN CharAt(LowerLetters, CHOOSE k \in 1..Len(UpperLetters) : CharAt(UpperLetters, k) = c)
    ELSE c

\* the string as it was given
ToLower_asGiven(s) == s

\* strings.ToLower
RECURSIVE ToLower(_)
ToLower(s) ==
    IF Len(s) = 0 THEN "" ELSE LowerOf(CharAt(s, 1)) \o ToLower(SubSeq(s, 2, Len(s)))

\* the decimal digits
Digits == <<"0", "1", "2", "3", "4", "5", "6", "7", "8", "9">>

\* fmt's %d (strconv.Itoa)
RECURSIVE Itoa(_)
Itoa(n) ==
    IF n < 0 THEN "-" \o Itoa(0 - n)
    ELSE IF n < 10 THEN Digits[n + 1]
    ELSE Itoa(n \div 10) \o Digits[(n % 10) + 1]

\* value of a string of decimal digits (0 for the empty string)
RECURSIVE DigitsValue(_)
DigitsValue(str) ==
    IF Len(str) = 0 THEN 0
    ELSE 10 * DigitsValue(SubSeq(str, 1, Len(str) - 1))
         + (CHOOSE d \in 0..9 : Digits[d + 1] = CharAt(str, Len(str)))

IsDigits(str) ==
    Len(str) > 0 /\ \A i \in 1..Len(str) : \E d \in 1..10 : Digits[d] = CharAt(str, i)

\* strconv.Atoi with its error dropped: an optional sign and decimal digits give
\* the number, anything else gives 0 (short strings: no range error)
Atoi(str) ==
    IF Len(str) > 0 /\ CharAt(str, 1) \in {"+", "-"}
    THEN LET rest == SubSeq(str, 2, Len(str))
         IN  IF ~IsDigits(rest) THEN 0
             ELSE IF CharAt(str, 1) = "-" THEN 0 - DigitsValue(rest)
             ELSE DigitsValue(rest)
    ELSE IF IsDigits(str) THEN DigitsValue(str) ELSE 0

(***************************************************************************)
(* Paths (package path/filepath).                                          *)
(***************************************************************************)
\* filepath.Dir: the path without its last component; the root is its own parent
Dir(path) == IF Len(path) = 0 THEN path ELSE SubSeq(path, 1, Len(path) - 1)

\* DirEntry.Name / filepath.Base
Base(path) == IF Len(path) = 0 THEN "/" ELSE path[Len(path)]

\* the path as the string handed to git
PathStr(path) == IF Len(path) = 0 THEN "/" ELSE "/" \o Join(path, "/")

\* p is q or lies beneath q
IsUnder(p, q) == Len(p) >= Len(q) /\ SubSeq(p, 1, Len(q)) = q

\* the error of os.Getwd in a working directory that has been removed
GetwdError == "getwd: no such file or directory"

\* filepath.IsAbs
IsAbs(p) == HasPrefix(p, "/")

\* the elements of a path that filepath.Clean keeps: empty elements and "."
\* are dropped, ".." removes the element before it, is dropped at the root of
\* a rooted path and is kept at the start of a relative one
RECURSIVE CleanElems(_, _, _)
CleanElems(elems, kept, rooted) ==
    IF elems = <<>> THEN kept
    ELSE LET e == Head(elems)
             rest == Tail(elems)
         IN  IF e = "" \/ e = "." THEN CleanElems(rest, kept, rooted)
             ELSE IF e = ".."
             THEN IF kept # <<>> /\ kept[Len(kept)] # ".."
                  THEN CleanElems(rest, SubSeq(kept, 1, Len(kept) - 1), rooted)
                  ELSE IF rooted THEN CleanElems(rest, kept, rooted)
                  ELSE CleanElems(rest, Append(kept, ".."), rooted)
             ELSE CleanElems(rest, Append(kept, e), rooted)

\* filepath.Clean: the shortest path naming the same place; "." for an empty one
Clean(p) ==
    LET rooted == HasPrefix(p, "/")
        kept == CleanElems(Split(p, "/"), <<>>, rooted)
    IN  IF rooted THEN "/" \o Join(kept, "/")
        ELSE IF kept = <<>> THEN "."
        ELSE Join(kept, "/")

\* filepath.Join of two elements: the non-empty ones joined by "/" and cleaned
JoinPath(dir, name) ==
    IF dir = "" /\ name = "" THEN ""
    ELSE IF dir = "" THEN Clean(name)
    ELSE IF name = "" THEN Clean(dir)
    ELSE Clean(dir \o "/" \o name)

\* filepath.Abs: an absolute path is cleaned, a relative one is joined to the
\* working directory, which os.Getwd may fail to give
Abs(p, getwdOk, wd) ==
    IF IsAbs(p) THEN [path |-> Clean(p), err |-> ""]
    ELSE IF getwdOk THEN [path |-> JoinPath(wd, p), err |-> ""]
    ELSE [path |-> "", err |-> GetwdError]

\* "Determine Target Directory" of status and sync: the --directory value,
\* or the working directory when it is empty, made absolute
TargetDirectory(directory, getwdOk, wd) ==
    IF directory = "" /\ ~getwdOk
    THEN [path |-> "", err |-> "failed to get current directory: " \o GetwdError]
    ELSE LET a == Abs(IF directory = "" THEN wd ELSE directory, getwdOk, wd)
         IN  IF a.err # ""
             THEN [path |-> "",
                   err |-> "failed to get absolute path for target directory: " \o a.err]
             ELSE a

\* file names in the byte order os.ReadDir sorts by
SortedNames ==
    <<".git", "a", "build", "node_modules", "target", "unknown revision", "vendor">>

NameSet == {SortedNames[i] : i \in 1..Len(SortedNames)}

Kinds == {"dir", "file", "noperm"}

\* DirEntry.IsDir
IsDir(kind) == kind \in {"dir", "noperm"}

(***************************************************************************)
(* Repository Locator (gitops.FindGitRepos over filepath.WalkDir).         *)
(***************************************************************************)
\* the walk's accumulated effects: repos appended, callback calls, warnings
EmptyWalk == [repos |-> <<>>, visited |-> <<>>, warnings |-> <<>>]

\* d.IsDir() && d.Name() == ".git"
IsMetadataDir(kind, name) == IsDir(kind) /\ name = ".git"

\* the exclusion test of the earlier draft, which skipped two names only
IsExcluded_twoNames(kind, name) == IsDir(kind) /\ name \in {"vendor", "node_modules"}

\* d.IsDir() && d.Name() is one of the dependency/build directory names
IsExcluded(kind, name) ==
    IsDir(kind) /\ name \in {"vendor", "node_modules", "target", "build"}

\* the error WalkDir hands to the callback: Lstat of a root that does not
\* exist, or ReadDir of a directory that cannot be opened
TraversalError(path, kind) ==
    IF kind = "missing" THEN "lstat " \o PathStr(path) \o ": no such file or directory"
    ELSE "open " \o PathStr(path) \o ": permission denied"

\* the warning the callback prints for a traversal error
AccessWarning(path, kind) ==
    "Warning: Error accessing path \"" \o PathStr(path) \o "\": "
    \o TraversalError(path, kind)

\* the callback with a traversal error returned to WalkDir, which ends the walk
WalkFn_abortOnError(path, kind, hasErr, acc) ==
    LET seen == [acc EXCEPT !.visited = Append(@, path)]
    IN  IF hasErr
        THEN [ret |-> TraversalError(path, kind), acc |-> seen]
        ELSE IF IsMetadataDir(kind, Base(path))
        THEN [ret |-> "SkipDir", acc |-> [seen EXCEPT !.repos = Append(@, Dir(path))]]
        ELSE IF IsExcluded(kind, Base(path))
        THEN [ret |-> "SkipDir", acc |-> seen]
        ELSE [ret |-> "nil", acc |-> seen]

\* the callback with the repository path taken to be the metadata folder itself
WalkFn_noParent(path, kind, hasErr, acc) ==
    LET seen == [acc EXCEPT !.visited = Append(@, path)]
    IN  IF hasErr
        THEN [ret |-> "SkipDir",
              acc |-> [seen EXCEPT !.warnings = Append(@, AccessWarning(path, kind))]]
        ELSE IF IsMetadataDir(kind, Base(path))
        THEN [ret |-> "SkipDir", acc |-> [seen EXCEPT !.repos = Append(@, path)]]
        ELSE IF IsExcluded(kind, Base(path))
        THEN [ret |-> "SkipDir", acc |-> seen]
        ELSE [ret |-> "nil", acc |-> seen]

\* the callback handed to filepath.WalkDir: what it returns and what it records
WalkFn(path, kind, hasErr, acc) ==
    LET seen == [acc EXCEPT !.visited = Append(@, path)]
    IN  IF hasErr
        THEN [ret |-> "SkipDir",
              acc |-> [seen EXCEPT !.warnings = Append(@, AccessWarning(path, kind))]]
        ELSE IF IsMetadataDir(kind, Base(path))
        THEN [ret |-> "SkipDir", acc |-> [seen EXCEPT !.repos = Append(@, Dir(path))]]
        ELSE IF IsExcluded(kind, Base(path))
        THEN [ret |-> "SkipDir", acc |-> seen]
        ELSE [ret |-> "nil", acc |-> seen]

\* os.ReadDir: the names of the entries of a directory, sorted by name
ChildNames(f, path) == SelectSeq(SortedNames, LAMBDA n : Append(path, n) \in DOMAIN f)

\* SkipDir from a directory handled like SkipDir from a file: the rest of the
\* containing directory is skipped too
SkipDone_skipSiblings(ret, kind) == ret

\* what walkDir returns for a callback result on entry of kind `kind`
SkipDone(ret, kind) == IF ret = "SkipDir" /\ IsDir(kind) THEN "nil" ELSE ret

\* filepath.walkDir: callback on the entry, then ReadDir, then the entries in order
RECURSIVE walkDir(_, _, _)
RECURSIVE walkEntries(_, _, _, _)
walkDir(f, path, acc) ==
    LET kind == f[path]
        r1 == WalkFn(path, kind, FALSE, acc)
    IN  IF r1.ret # "nil" \/ ~IsDir(kind)
        THEN [ret |-> SkipDone(r1.ret, kind), acc |-> r1.acc]
        ELSE IF kind = "noperm"
        THEN LET r2 == WalkFn(path, kind, TRUE, r1.acc)
             IN  [ret |-> SkipDone(r2.ret, kind), acc |-> r2.acc]
        ELSE walkEntries(f, path, ChildNames(f, path), r1.acc)

walkEntries(f, path, names, acc) ==
    IF names = <<>> THEN [ret |-> "nil", acc |-> acc]
    ELSE LET r == walkDir(f, Append(path, Head(names)), acc)
         IN  IF r.ret = "SkipDir" THEN [ret |-> "nil", acc |-> r.acc]
             ELSE IF r.ret # "nil" THEN r
             ELSE walkEntries(f, path, Tail(names), r.acc)

\* a walk that hands only the entries beneath the root to the callback
WalkDir_rootNotChecked(f, rootDir) ==
    LET r == IF rootDir \in DOMAIN f /\ f[rootDir] = "dir"
             THEN walkEntries(f, rootDir, ChildNames(f, rootDir),
                              [EmptyWalk EXCEPT !.visited = <<rootDir>>])
             ELSE IF rootDir \in DOMAIN f
             THEN walkDir(f, rootDir, EmptyWalk)
             ELSE WalkFn(rootDir, "missing", TRUE, EmptyWalk)
    IN  [err |-> IF r.ret \in {"nil", "SkipDir"} THEN "" ELSE r.ret, acc |-> r.acc]

\* filepath.WalkDir: Lstat of the root, then walkDir; SkipDir from the root is no error
WalkDir(f, rootDir) ==
    LET r == IF rootDir \in DOMAIN f
             THEN walkDir(f, rootDir, EmptyWalk)
             ELSE WalkFn(rootDir, "missing", TRUE, EmptyWalk)
    IN  [err |-> IF r.ret \in {"nil", "SkipDir"} THEN "" ELSE r.ret, acc |-> r.acc]

\* gitops.FindGitRepos: (repos, nil), or (nil, err) when the walk returns an error
FindGitRepos(f, rootDir) ==
    LET w == WalkDir(f, rootDir)
    IN  [repos |-> IF w.err # "" THEN <<>> ELSE w.acc.repos,
         err |-> w.err,
         visited |-> w.acc.visited,
         warnings |-> w.acc.warnings]

(***************************************************************************)
(* Initial state and the environment's construction of the directory tree. *)
(***************************************************************************)
\* the commands of the tool (a direct call of the Locator is "locate")
Commands == {"clean", "status", "sync", "version"}

\* values given to --directory for a scan of r: none, the absolute path, or
\* r named from its parent directory as "./<name>"
DirectoryValues(r) == {"", PathStr(r), "./" \o Base(r)}

\* the working directory of the process: the parent of r when r is named
\* relative to it, r itself otherwise
WorkingDir(directory, r) ==
    IF directory \in {"", PathStr(r)} THEN PathStr(r) ELSE PathStr(Dir(r))

\* the directories a scan is started on
Roots == {<<"w">>, <<"w", "vendor">>, <<"w", ".git">>}

\* the root as a directory, an unreadable directory, a plain file, or absent
RootStates(r) == {(r :> k) : k \in Kinds} \cup {<<>>}

NoFlags == [main |-> "", delete |-> FALSE, dryRun |-> FALSE, action |-> "fetch",
            directory |-> ""]

InitFor(c) ==
    /\ cmd = c
    /\ pc = "setup"
    /\ root \in Roots
    /\ fs \in (IF cmd \in {"clean", "run", "version"} THEN {(root :> "dir")} ELSE RootStates(root))
    /\ flags = NoFlags
    /\ targetDir = <<>>
    /\ action = ""
    /\ repos = <<>>
    /\ visited = <<>>
    /\ idx = 0
    /\ calls = <<>>
    /\ stdoutLines = <<>>
    /\ stderrLines = <<>>
    /\ successCount = 0
    /\ failCount = 0
    /\ targetMainBranch = ""
    /\ branchesToProcess = <<>>
    /\ isDirty = FALSE
    /\ records = <<>>
    /\ runErr = ""
    /\ exitCode = -1

Init == \E c \in Commands : InitFor(c)

\* entry names and kinds the environment creates: the metadata folder, a plain
\* name and the excluded names for a direct scan, a repository-relevant
\* selection when a whole command runs (for status the subdirectory carries
\* a name that is a phrase of git's error messages)
TreeNames(c) ==
    IF c = "locate" THEN NameSet
    ELSE IF c = "status" THEN {".git", "unknown revision"}
    ELSE {".git", "a"}

\* kinds an entry of a given name is created with: every kind for the names a
\* direct scan tells apart by kind, a readable directory otherwise
TreeKinds(c, n) ==
    IF c = "locate" /\ n \in {".git", "a", "build", "vendor"} THEN Kinds ELSE {"dir"}

\* entries beneath the scan root
Entries(f) == DOMAIN f \ {root}

\* the environment creates one entry in a directory of the tree (entries of an
\* unreadable directory exist but cannot be listed); the
\* branch cleaner never reads the tree, so its runs keep the tree fixed
Mkdir ==
    /\ pc = "setup"
    /\ cmd \notin {"clean", "version"}
    /\ Cardinality(Entries(fs)) < MaxNodes
    /\ \E parent \in DOMAIN fs, n \in TreeNames(cmd) : \E k \in TreeKinds(cmd, n) :
          /\ IsDir(fs[parent])
          /\ Len(parent) - Len(root) < MaxDepth
          /\ Append(parent, n) \notin DOMAIN fs
          /\ fs' = (Append(parent, n) :> k) @@ fs
    /\ UNCHANGED <<cmd, pc, root, flags, targetDir, action, repos, visited, idx, calls,
                   stdoutLines, stderrLines, successCount, failCount, targetMainBranch,
                   branchesToProcess, isDirty, records, runErr, exitCode>>

\* a direct call of gitops.FindGitRepos(root)
Locate ==
    /\ pc = "setup"
    /\ cmd = "locate"
    /\ LET r == FindGitRepos(fs, root)
       IN  /\ repos' = r.repos
           /\ visited' = r.visited
           /\ stderrLines' = stderrLines \o r.warnings
           /\ runErr' = r.err
    /\ pc' = "done"
    /\ UNCHANGED <<cmd, fs, root, flags, targetDir, action, idx, calls, stdoutLines,
                   successCount, failCount, targetMainBranch, branchesToProcess,
                   isDirty, records, exitCode>>

InitLocate == InitFor("locate")

NextLocate == Mkdir \/ Locate

SpecLocate == InitLocate /\ [][NextLocate]_vars

(***************************************************************************)
(* Claims about the Locator, checked under SpecLocate.                     *)
(***************************************************************************)
ExcludedNames == {"vendor", "node_modules", "target", "build"}

\* the directories of the scanned tree that carry an excluded name
ExcludedDirs == {p \in DOMAIN fs : fs[p] \in {"dir", "noperm"} /\ Base(p) \in ExcludedNames}

\* the metadata folders of the scanned tree
MetaDirs == {p \in DOMAIN fs : fs[p] \in {"dir", "noperm"} /\ Base(p) = ".git"}

\* the directories of the scanned tree that properly contain p
AncestorsInTree(p) == {q \in DOMAIN fs : q # p /\ IsUnder(p, q)}

RepoSet == {repos[i] : i \in 1..Len(repos)}

NoRepeat(seq) == \A i, j \in 1..Len(seq) : seq[i] = seq[j] => i = j

LocateDone == cmd = "locate" /\ pc = "done"

\* no metadata folder lies inside another metadata folder
NoMetaInsideMeta == \A m \in MetaDirs : \A q \in AncestorsInTree(m) : q \notin MetaDirs

\* no metadata folder lies inside an excluded or an unreadable directory
NoMetaHidden ==
    \A m \in MetaDirs : \A q \in AncestorsInTree(m) :
        q \notin ExcludedDirs /\ fs[q] # "noperm"

\* C8 as stated: N metadata folders, none nested inside another's metadata folder,
\* give exactly N paths, each the parent of a metadata folder, none repeated.
C8_Original ==
    (LocateDone /\ NoMetaInsideMeta) =>
        /\ Len(repos) = Cardinality(MetaDirs)
        /\ RepoSet = {Dir(m) : m \in MetaDirs}
        /\ NoRepeat(repos)

\* C8 amended: N metadata folders, none nested inside another's metadata folder
\* nor inside an excluded or unreadable directory of the scanned tree, give
\* exactly N paths, each the parent of a metadata folder, none repeated.
C8_LocatorComplete ==
    (LocateDone /\ NoMetaInsideMeta /\ NoMetaHidden) =>
        /\ Len(repos) = Cardinality(MetaDirs)
        /\ RepoSet = {Dir(m) : m \in MetaDirs}
        /\ NoRepeat(repos)

\* two repositories found, one at the scan root and one in a subdirectory
C8_Witness ==
    /\ LocateDone /\ NoMetaInsideMeta /\ NoMetaHidden
    /\ Cardinality(MetaDirs) = 2
    /\ Len(repos) = 2
    /\ repos[1] = root

\* C9: no returned path lies in the subtree of an excluded directory of the
\* scanned tree, and the callback is never called on an entry beneath one.
C9_ExcludedNeverEntered ==
    LocateDone =>
        \A e \in ExcludedDirs :
            /\ \A i \in 1..Len(repos) : ~IsUnder(repos[i], e)
            /\ \A j \in 1..Len(visited) : visited[j] # e => ~IsUnder(visited[j], e)

\* a walk over a tree whose excluded "build" directory holds a metadata folder,
\* next to a repository that is found
C9_Witness ==
    /\ LocateDone
    /\ \E e \in ExcludedDirs :
          /\ Base(e) = "build"
          /\ e # root
          /\ Append(e, ".git") \in MetaDirs
          /\ fs[e] = "dir"
    /\ Len(repos) = 1

\* the directories of the scanned tree that hold a metadata folder
RepoDirs == {Dir(m) : m \in MetaDirs} \cap DOMAIN fs

\* p is, or lies inside, a directory of the set ds
Within(p, ds) == \E q \in ds : IsUnder(p, q)

UnreadableDirs == {p \in DOMAIN fs : fs[p] = "noperm"}

\* the repositories nested in the working tree of another repository of the
\* scanned tree, outside every metadata folder and every excluded directory
NestedRepos ==
    {p \in RepoDirs :
        /\ \E q \in RepoDirs : q # p /\ IsUnder(p, q)
        /\ ~Within(p, MetaDirs)
        /\ ~Within(p, ExcludedDirs)}

OuterRepos(p) == {q \in RepoDirs : q # p /\ IsUnder(p, q)}

\* p and q are both in the result, once each
BothReturned(p, q) ==
    /\ Cardinality({i \in 1..Len(repos) : repos[i] = p}) = 1
    /\ Cardinality({i \in 1..Len(repos) : repos[i] = q}) = 1

\* C18 as stated: every repository nested in another repository's working
\* tree, outside metadata folders and excluded directories, is in the result
\* together with the repository around it.
C18_Original ==
    LocateDone =>
        \A p \in NestedRepos : \A q \in OuterRepos(p) : BothReturned(p, q)

\* C18 amended: the same for the nested repositories that are not, and do not
\* lie inside, an unreadable directory.
C18_NestedDiscovered ==
    LocateDone =>
        \A p \in NestedRepos :
            ~Within(p, UnreadableDirs) =>
                \A q \in OuterRepos(p) : BothReturned(p, q)

\* the repository /w/a found inside the repository /w: the walk went on to
\* /w/a after it had met /w/.git
C18_Witness ==
    /\ LocateDone
    /\ root = <<"w">>
    /\ <<"w", "a">> \in NestedRepos
    /\ ~Within(<<"w", "a">>, UnreadableDirs)
    /\ visited = <<(<<"w">>), (<<"w", ".git">>), (<<"w", "a">>), (<<"w", "a", ".git">>)>>
    /\ repos = <<(<<"w">>), (<<"w", "a">>)>>

\* the directories whose listing the walk attempts and fails: unreadable, not
\* skipped for their name, and inside no directory the walk leaves out
FailingDirs ==
    {u \in UnreadableDirs :
        /\ Base(u) \notin ExcludedNames \cup {".git"}
        /\ \A q \in AncestorsInTree(u) :
              q \notin MetaDirs \cup ExcludedDirs \cup UnreadableDirs}

\* the scan root does not exist: Lstat of the root fails
RootMissing == root \notin DOMAIN fs

WarningFor(u) ==
    "Warning: Error accessing path \"" \o PathStr(u) \o "\": open " \o PathStr(u)
    \o ": permission denied"

Occurrences(seq, x) == Cardinality({i \in 1..Len(seq) : seq[i] = x})

\* C19: every directory whose listing fails gets one warning and nothing
\* beneath it is visited; the walk returns no error, and every repository
\* that lies in no unreadable, excluded or metadata directory is returned.
C19_TraversalErrorSkipsSubtree ==
    LocateDone =>
        /\ runErr = ""
        /\ \A u \in FailingDirs :
              /\ Occurrences(stderrLines, WarningFor(u)) = 1
              /\ \A j \in 1..Len(visited) : IsUnder(visited[j], u) => visited[j] = u
        /\ Len(stderrLines) = Cardinality(FailingDirs) + (IF RootMissing THEN 1 ELSE 0)
        /\ \A p \in RepoDirs :
              (~Within(p, UnreadableDirs) /\ ~Within(p, MetaDirs) /\ ~Within(p, ExcludedDirs))
                  => Occurrences(repos, p) = 1

\* /w/a cannot be read; the walk warned about /w/a and went on to find the
\* repository /w/unknown revision
C19_Witness ==
    /\ LocateDone
    /\ root = <<"w">>
    /\ FailingDirs = {<<"w", "a">>}
    /\ Occurrences(visited, <<"w", "a">>) = 2
    /\ stderrLines = <<WarningFor(<<"w", "a">>)>>
    /\ repos = <<(<<"w", "unknown revision">>)>>
    /\ runErr = ""

\* C27: every path the Locator returns is the scan root or a directory
\* beneath it, for every scan root, one that is itself named .git included.
C27_ReturnedWithinRoot ==
    LocateDone => \A i \in 1..Len(repos) : IsUnder(repos[i], root)

\* the same for the scan roots that are not a directory named .git
C27_WithinRootUnlessRootIsMetadata ==
    (LocateDone /\ Base(root) # ".git") =>
        \A i \in 1..Len(repos) : IsUnder(repos[i], root)

\* the scan root /w/.git is a directory: its parent /w is returned
C27_ParentOfRootReturned ==
    /\ LocateDone
    /\ root = <<"w", ".git">>
    /\ root \in DOMAIN fs /\ fs[root] = "dir"
    /\ visited = <<root>>
    /\ repos = <<(<<"w">>)>>
    /\ stderrLines = <<>> /\ runErr = ""

(***************************************************************************)
(* Command Runner (gitops.RunGitCommand) and the git subprocess.           *)
(***************************************************************************)
\* what a git subprocess can do: exit 0, exit non-zero, or fail to launch
ExitOk(out) == [failed |-> FALSE, stdout |-> out, stderr |-> "", procErr |-> ""]

ExitFail(out, errText) ==
    [failed |-> TRUE, stdout |-> out, stderr |-> errText, procErr |-> "exit status 1"]

LaunchFail ==
    [failed |-> TRUE, stdout |-> "", stderr |-> "",
     procErr |-> "exec: \"git\": executable file not found in $PATH"]

\* the first draft of the runner: nothing of stdout is returned with an error
RunGitCommand_dropOutput(args, res) ==
    [output |-> IF res.failed THEN "" ELSE TrimSpace(res.stdout),
     err |-> IF res.failed
             THEN "command 'git " \o Join(args, " ") \o "' failed: " \o res.procErr
                  \o "\nStderr: " \o res.stderr
             ELSE ""]

\* gitops.RunGitCommand: trimmed stdout, and on failure an error that embeds the
\* joined arguments, the process error and the captured stderr ("" is nil)
RunGitCommand(args, res) ==
    [output |-> TrimSpace(res.stdout),
     err |-> IF res.failed
             THEN "command 'git " \o Join(args, " ") \o "' failed: " \o res.procErr
                  \o "\nStderr: " \o res.stderr
             ELSE ""]

\* the record kept of one subprocess
CallOf(args, res) ==
    [args |-> args, failed |-> res.failed, stdout |-> res.stdout, stderr |-> res.stderr,
     procErr |-> res.procErr]

\* argument lists of a direct call of the runner
RunnerArgs ==
    {<<"status">>, <<"branch", "-d", "x y">>, <<"-C", "/w", "fetch", "--prune">>, <<>>}

\* what the process wrote to its stdout and stderr before it ended
RunnerStdouts == {"", "\n", "  a b \n", "x\n\ty\n", "\t1\t2\r\n", "partial"}

RunnerStderrs == {"", "fatal: boom\n", " warn \n"}

\* cmd.Run(): exit 0, a non-zero exit status, or a process that never started
RunnerOutcomes ==
    {[failed |-> FALSE, stdout |-> o, stderr |-> e, procErr |-> ""] :
        o \in RunnerStdouts, e \in RunnerStderrs}
    \cup {[failed |-> TRUE, stdout |-> o, stderr |-> e, procErr |-> x] :
             o \in RunnerStdouts, e \in RunnerStderrs,
             x \in {"exit status 1", "exit status 128"}}
    \cup {LaunchFail}

\* a direct call of gitops.RunGitCommand(args...): the output is kept in
\* stdoutLines, the error in runErr
RunCommand ==
    /\ pc = "setup"
    /\ cmd = "run"
    /\ \E args \in RunnerArgs, res \in RunnerOutcomes :
          LET r == RunGitCommand(args, res)
          IN  /\ calls' = Append(calls, CallOf(args, res))
              /\ stdoutLines' = <<r.output>>
              /\ runErr' = r.err
    /\ pc' = "done"
    /\ UNCHANGED <<cmd, fs, root, flags, targetDir, action, repos, visited, idx,
                   stderrLines, successCount, failCount, targetMainBranch,
                   branchesToProcess, isDirty, records, exitCode>>

InitRunner == InitFor("run")

NextRunner == RunCommand

SpecRunner == InitRunner /\ [][NextRunner]_vars

(***************************************************************************)
(* Claims about the Command Runner, checked under SpecRunner.              *)
(***************************************************************************)
AllSpace(str) == \A i \in 1..Len(str) : CharAt(str, i) \in {" ", "\t", "\n", "\r"}

\* out is raw without the whitespace at its two ends
IsTrimOf(out, raw) ==
    /\ \E i \in 1..(Len(raw) + 1) :
          /\ AllSpace(SubSeq(raw, 1, i - 1))
          /\ SubSeq(raw, i, i + Len(out) - 1) = out
          /\ AllSpace(SubSeq(raw, i + Len(out), Len(raw)))
    /\ Len(out) > 0 =>
          /\ ~AllSpace(CharAt(out, 1))
          /\ ~AllSpace(CharAt(out, Len(out)))

RunnerDone == cmd = "run" /\ pc = "done"

\* C13: the runner returns the captured stdout without the whitespace at its
\* ends, after a success and after a failure alike; the error is nil after a
\* success, and after a non-zero exit or a failed launch it is the text
\* "command 'git <arguments joined by spaces>' failed: <process error>",
\* a newline, and "Stderr: " followed by all that was captured of stderr.
C13_RunnerResult ==
    RunnerDone =>
        LET c == calls[1]
            output == stdoutLines[1]
        IN  /\ IsTrimOf(output, c.stdout)
            /\ ~c.failed => runErr = ""
            /\ c.failed =>
                  runErr = "command 'git " \o Join(c.args, " ") \o "' failed: "
                           \o c.procErr \o "\nStderr: " \o c.stderr
            /\ (c.failed /\ c.args = <<"branch", "-d", "x y">>
                  /\ c.procErr = "exit status 1" /\ c.stderr = "fatal: boom\n") =>
                  runErr = "command 'git branch -d x y' failed: exit status 1\nStderr: fatal: boom\n"

\* a process that printed "  a b " and a newline, wrote to stderr and exited non-zero
C13_Witness ==
    /\ RunnerDone
    /\ calls[1].failed
    /\ calls[1].stdout = "  a b \n"
    /\ stdoutLines = <<"a b">>
    /\ calls[1].stderr = "fatal: boom\n"
    /\ calls[1].args = <<"-C", "/w", "fetch", "--prune">>

(***************************************************************************)
(* Display helpers shared by status and sync.                              *)
(***************************************************************************)
\* length of the longest common prefix of two paths
RECURSIVE CommonLen(_, _)
CommonLen(p, q) ==
    IF Len(p) = 0 \/ Len(q) = 0 \/ Head(p) # Head(q) THEN 0
    ELSE 1 + CommonLen(Tail(p), Tail(q))

RECURSIVE Ups(_)
Ups(n) == IF n = 0 THEN <<>> ELSE <<"..">> \o Ups(n - 1)

\* filepath.Rel(base, target) for absolute clean paths
Rel(base, target) ==
    LET c == CommonLen(base, target)
        parts == Ups(Len(base) - c) \o SubSeq(target, c + 1, Len(target))
    IN  IF Len(parts) = 0 THEN "." ELSE Join(parts, "/")

\* the name a repository is displayed under
RelPath(base, repoPath) ==
    IF Rel(base, repoPath) = "." THEN Base(base) ELSE Rel(base, repoPath)

Max(a, b) == IF a >= b THEN a ELSE b

\* the widest displayed name, for column alignment
RECURSIVE MaxRelLen(_, _)
MaxRelLen(base, rs) ==
    IF Len(rs) = 0 THEN 0
    ELSE Max(Len(RelPath(base, Head(rs))), MaxRelLen(base, Tail(rs)))

\* fmt's %-*s: left-justified in a field of the given width
RECURSIVE PadRight(_, _)
PadRight(str, width) == IF Len(str) >= width THEN str ELSE PadRight(str \o " ", width)

(***************************************************************************)
(* version command (versionCmd).                                           *)
(***************************************************************************)
\* the build variables, at the values of a build without ldflags
version == "dev"

commit == "none"

date == "unknown"

\* versionCmd.RunE: three lines on stdout, nil returned
VersionRun ==
    /\ pc = "setup"
    /\ cmd = "version"
    /\ stdoutLines' = stdoutLines \o <<"git-util version " \o version,
                                        "commit: " \o commit,
                                        "built at: " \o date>>
    /\ pc' = "returned"
    /\ UNCHANGED <<cmd, fs, root, flags, targetDir, action, repos, visited, idx, calls,
                   stderrLines, successCount, failCount, targetMainBranch,
                   branchesToProcess, isDirty, records, runErr, exitCode>>

(***************************************************************************)
(* Execute (cmd/root.go): the exit status of the process.                  *)
(***************************************************************************)
\* the command as cobra names it in the usage text (CommandPath)
CommandPath(c) == IF c = "clean" THEN "git-util" ELSE "git-util " \o c

\* what cobra's ExecuteC writes to stderr when RunE returned an error (neither
\* SilenceErrors nor SilenceUsage is set): the error after "Error:", then the
\* usage text of the command, of which the element kept is the beginning,
\* "Usage:" and the use line; the list of flags that follows is left out
CobraReport(c, err) ==
    IF err = "" THEN <<>>
    ELSE <<"Error: " \o err, "Usage:\n  " \o CommandPath(c) \o " [flags]">>

\* Execute with per-item failures turned into a failed run
Execute_failOnAnyFailure ==
    /\ pc = "returned"
    /\ stderrLines' = stderrLines \o CobraReport(cmd, runErr)
    /\ exitCode' = IF runErr # "" \/ failCount > 0 THEN 1 ELSE 0
    /\ pc' = "done"
    /\ UNCHANGED <<cmd, fs, root, flags, targetDir, action, repos, visited, idx, calls,
                   stdoutLines, successCount, failCount, targetMainBranch,
                   branchesToProcess, isDirty, records, runErr>>

\* rootCmd.Execute reports the error of RunE on stderr; os.Exit(1) when it
\* returns an error, exit status 0 otherwise
Execute ==
    /\ pc = "returned"
    /\ stderrLines' = stderrLines \o CobraReport(cmd, runErr)
    /\ exitCode' = IF runErr # "" THEN 1 ELSE 0
    /\ pc' = "done"
    /\ UNCHANGED <<cmd, fs, root, flags, targetDir, action, repos, visited, idx, calls,
                   stdoutLines, successCount, failCount, targetMainBranch,
                   branchesToProcess, isDirty, records, runErr>>

(***************************************************************************)
(* sync command (cmd/sync.go).                                             *)
(***************************************************************************)
\* values given to --action
SyncActions == {"fetch", "pull", "FETCH", "Pull", "rebase", ""}

\* what git fetch / git pull can do on one repository
SyncOutcomes ==
    {ExitOk("Already up to date.\n"),
     ExitFail("", "fatal: unable to access remote\n"),
     LaunchFail}

\* a validation that only rejects a missing action
ValidAction_nonEmpty(a) == a # ""

\* action != "fetch" && action != "pull" rejects; this is its negation
ValidAction(a) == a = "fetch" \/ a = "pull"

\* the arguments with a pull that may create a merge commit
SyncArgs_plainPull(a, repoPath) ==
    <<"-C", PathStr(repoPath)>> \o
        (IF a = "fetch" THEN <<"fetch", "--prune">> ELSE <<"pull">>)

\* the git arguments of the requested action
SyncArgs(a, repoPath) ==
    <<"-C", PathStr(repoPath)>> \o
        (IF a = "fetch" THEN <<"fetch", "--prune">> ELSE <<"pull", "--ff-only">>)

\* target directory and action validation, up to the call of the Locator
SyncStart ==
    /\ pc = "setup"
    /\ cmd = "sync"
    /\ \E d \in DirectoryValues(root), getwdOk \in BOOLEAN, a \in SyncActions :
          LET t == TargetDirectory(d, getwdOk, WorkingDir(d, root))
          IN  /\ flags' = [flags EXCEPT !.directory = d, !.action = a]
              /\ IF t.err # ""
                 THEN /\ runErr' = t.err
                      /\ pc' = "returned"
                      /\ UNCHANGED <<targetDir, action, stdoutLines>>
                 ELSE /\ t.path = PathStr(root)
                      /\ targetDir' = root
                      /\ action' = ToLower(a)
                      /\ IF ~ValidAction(ToLower(a))
                         THEN /\ runErr' = "invalid action '" \o a
                                           \o "': must be 'fetch' or 'pull'"
                              /\ pc' = "returned"
                              /\ UNCHANGED stdoutLines
                         ELSE /\ stdoutLines' = Append(stdoutLines,
                                    "Scanning directory: " \o t.path
                                    \o " (Action: " \o ToLower(a) \o ")")
                              /\ pc' = "find"
                              /\ UNCHANGED runErr
    /\ UNCHANGED <<cmd, fs, root, repos, visited, idx, calls, stderrLines, successCount,
                   failCount, targetMainBranch, branchesToProcess, isDirty, records,
                   exitCode>>

\* the call of the Locator and the two early returns after it
SyncFind ==
    /\ pc = "find"
    /\ cmd = "sync"
    /\ \E r \in {FindGitRepos(fs, targetDir)} :
           /\ repos' = r.repos
           /\ visited' = r.visited
           /\ stderrLines' = stderrLines \o r.warnings
           /\ IF r.err # ""
              THEN /\ runErr' = "error finding repositories: " \o r.err
                   /\ pc' = "returned"
                   /\ UNCHANGED <<stdoutLines, idx>>
              ELSE IF Len(r.repos) = 0
              THEN /\ stdoutLines' = Append(stdoutLines,
                         "No Git repositories found in the specified directory.")
                   /\ pc' = "returned"
                   /\ UNCHANGED <<runErr, idx>>
              ELSE /\ stdoutLines' = Append(stdoutLines, "--- Synchronizing Repositories ---")
                   /\ idx' = 1
                   /\ pc' = "loop"
                   /\ UNCHANGED runErr
    /\ UNCHANGED <<cmd, fs, root, flags, targetDir, action, calls, successCount, failCount,
                   targetMainBranch, branchesToProcess, isDirty, records, exitCode>>

\* the loop with a failed repository ending the command
SyncRepo_abortOnFail ==
    /\ pc = "loop"
    /\ cmd = "sync"
    /\ idx <= Len(repos)
    /\ \E res \in SyncOutcomes :
          LET gitFullArgs == SyncArgs(action, repos[idx])
              r == RunGitCommand(gitFullArgs, res)
          IN  /\ calls' = Append(calls, CallOf(gitFullArgs, res))
              /\ IF r.err # ""
                 THEN /\ failCount' = failCount + 1
                      /\ runErr' = r.err
                      /\ pc' = "returned"
                      /\ UNCHANGED successCount
                 ELSE /\ successCount' = successCount + 1
                      /\ UNCHANGED <<failCount, runErr, pc>>
    /\ idx' = idx + 1
    /\ UNCHANGED <<cmd, fs, root, flags, targetDir, action, repos, visited, stdoutLines,
                   stderrLines, targetMainBranch, branchesToProcess, isDirty, records,
                   exitCode>>

\* the loop with a failed repository tried again before the next one
SyncRepo_retry ==
    /\ pc = "loop"
    /\ cmd = "sync"
    /\ idx <= Len(repos)
    /\ \E res \in SyncOutcomes :
          LET gitFullArgs == SyncArgs(action, repos[idx])
              r == RunGitCommand(gitFullArgs, res)
          IN  /\ calls' = Append(calls, CallOf(gitFullArgs, res))
              /\ IF r.err # "" /\ failCount = 0
                 THEN /\ failCount' = failCount + 1
                      /\ UNCHANGED <<successCount, idx>>
                 ELSE /\ successCount' = successCount + 1
                      /\ idx' = idx + 1
                      /\ UNCHANGED failCount
    /\ UNCHANGED <<cmd, pc, fs, root, flags, targetDir, action, repos, visited, stdoutLines,
                   stderrLines, targetMainBranch, branchesToProcess, isDirty, records,
                   runErr, exitCode>>

\* one iteration of the loop: one git subprocess on repos[idx]
SyncRepo ==
    /\ pc = "loop"
    /\ cmd = "sync"
    /\ idx <= Len(repos)
    /\ \E res \in SyncOutcomes :
          LET repoPath == repos[idx]
              relPath == RelPath(targetDir, repoPath)
              gitFullArgs == SyncArgs(action, repoPath)
              r == RunGitCommand(gitFullArgs, res)
              head == PadRight(relPath, MaxRelLen(targetDir, repos))
                      \o " : Syncing (" \o action \o ")... "
          IN  /\ calls' = Append(calls, CallOf(gitFullArgs, res))
              /\ IF r.err # ""
                 THEN /\ stdoutLines' = Append(stdoutLines, head \o "FAILED")
                      /\ stderrLines' = Append(stderrLines,
                            "  Error for " \o relPath \o ": " \o r.err
                            \o "\n  Output: " \o r.output)
                      /\ failCount' = failCount + 1
                      /\ UNCHANGED successCount
                 ELSE /\ stdoutLines' = Append(stdoutLines, head \o "OK")
                      /\ successCount' = successCount + 1
                      /\ UNCHANGED <<stderrLines, failCount>>
    /\ idx' = idx + 1
    /\ UNCHANGED <<cmd, pc, fs, root, flags, targetDir, action, repos, visited,
                   targetMainBranch, branchesToProcess, isDirty, records, runErr, exitCode>>

\* the summary after the loop; RunE returns nil
SyncSummary ==
    /\ pc = "loop"
    /\ cmd = "sync"
    /\ idx > Len(repos)
    /\ stdoutLines' = stdoutLines \o
          <<"--- Summary ---", "Action '" \o action \o "' completed.",
            "  Successfully synced: " \o Itoa(successCount),
            "  Failed to sync:    " \o Itoa(failCount)>>
    /\ pc' = "returned"
    /\ UNCHANGED <<cmd, fs, root, flags, targetDir, action, repos, visited, idx, calls,
                   stderrLines, successCount, failCount, targetMainBranch,
                   branchesToProcess, isDirty, records, runErr, exitCode>>

InitSync == InitFor("sync")

NextSync == Mkdir \/ SyncStart \/ SyncFind \/ SyncRepo \/ SyncSummary \/ Execute

SpecSync == InitSync /\ [][NextSync]_vars

(***************************************************************************)
(* Claims about the sync command, checked under SpecSync.                  *)
(***************************************************************************)
\* number of recorded subprocesses that failed / succeeded
FailedCalls == Cardinality({i \in 1..Len(calls) : calls[i].failed})

SucceededCalls == Cardinality({i \in 1..Len(calls) : ~calls[i].failed})

\* the sync loop was entered and the handler has returned
SyncFinished == cmd = "sync" /\ pc \in {"returned", "done"} /\ Len(repos) > 0

\* C1: while sync runs, the i-th subprocess is the action on the i-th repository
\* and the counters count the failed and the succeeded subprocesses; once the
\* handler has returned, every repository of the list has had its one attempt,
\* whatever failed before it, and the counters sum to the list length.
C1_SyncFailureIsolation ==
    cmd = "sync" =>
        /\ Len(calls) <= Len(repos)
        /\ \A i \in 1..Len(calls) :
              /\ calls[i].args[1] = "-C"
              /\ calls[i].args[2] = PathStr(repos[i])
              /\ SubSeq(calls[i].args, 3, Len(calls[i].args)) \in
                    {<<"fetch", "--prune">>, <<"pull", "--ff-only">>}
        /\ failCount = FailedCalls
        /\ successCount = SucceededCalls
        /\ SyncFinished =>
              /\ Len(calls) = Len(repos)
              /\ successCount + failCount = Len(repos)
              /\ runErr = ""

\* a finished run over two repositories in which the first one failed and the
\* second one was still attempted and succeeded
C1_Witness ==
    /\ SyncFinished /\ pc = "done"
    /\ Len(repos) = 2
    /\ calls[1].failed /\ ~calls[2].failed
    /\ failCount = 1 /\ successCount = 1

\* the action given on the command line is neither fetch nor pull in any casing
InvalidActionGiven ==
    cmd = "sync" /\ pc # "setup" /\ ToLower(flags.action) \notin {"fetch", "pull"}

\* C2: with an invalid action the handler has returned an error without the
\* Locator having visited any path and without any git subprocess, and the
\* process exits non-zero.
C2_InvalidActionRejected ==
    InvalidActionGiven =>
        /\ pc \in {"returned", "done"}
        /\ runErr # ""
        /\ visited = <<>> /\ repos = <<>>
        /\ calls = <<>>
        /\ successCount = 0 /\ failCount = 0
        /\ pc = "done" => exitCode = 1

\* action "rebase" rejected on a tree whose root is a repository
C2_Witness ==
    /\ InvalidActionGiven /\ pc = "done"
    /\ flags.action = "rebase"
    /\ runErr = "invalid action 'rebase': must be 'fetch' or 'pull'"
    /\ Append(root, ".git") \in DOMAIN fs
    /\ fs[root] = "dir"
    /\ calls = <<>>

\* the action asked for on the command line, whatever its letter case
AskedFetch == flags.action \in {"fetch", "FETCH"}

AskedPull == flags.action \in {"pull", "Pull"}

\* C24: every subprocess of sync is "-C <path of the i-th repository>"
\* followed by exactly "fetch --prune" when fetch was asked for and exactly
\* "pull --ff-only" when pull was asked for: one action for all repositories
\* of the run, and no other git command.
C24_SyncArguments ==
    cmd = "sync" =>
        \A i \in 1..Len(calls) :
            /\ AskedFetch \/ AskedPull
            /\ AskedFetch =>
                  calls[i].args = <<"-C", PathStr(repos[i]), "fetch", "--prune">>
            /\ AskedPull =>
                  calls[i].args = <<"-C", PathStr(repos[i]), "pull", "--ff-only">>

\* a finished pull over the repositories /w and /w/a
C24_Witness ==
    /\ cmd = "sync" /\ pc = "done"
    /\ flags.action = "pull"
    /\ Len(calls) = 2
    /\ calls[1].args = <<"-C", "/w", "pull", "--ff-only">>
    /\ calls[2].args = <<"-C", "/w/a", "pull", "--ff-only">>

\* the capital of each letter of "fetch" and "pull"
CapitalOf(c) ==
    CASE c = "f" -> "F" [] c = "e" -> "E" [] c = "t" -> "T" [] c = "c" -> "C"
      [] c = "h" -> "H" [] c = "p" -> "P" [] c = "u" -> "U" [] c = "l" -> "L"

\* s is the lowercase word in some letter-casing
IsCasingOf(s, word) ==
    /\ Len(s) = Len(word)
    /\ \A k \in 1..Len(word) :
          CharAt(s, k) = CharAt(word, k) \/ CharAt(s, k) = CapitalOf(CharAt(word, k))

\* the validation of --action has been reached
ActionChecked ==
    /\ cmd = "sync" /\ pc # "setup"
    /\ ~HasPrefix(runErr, "failed to get current directory")
    /\ ~HasPrefix(runErr, "failed to get absolute path")

\* C30: an action that is "fetch" or "pull" in any letter-casing is accepted
\* and run as that lowercase word (it is the action announced and the git
\* subcommand of every subprocess); every other string, the empty one
\* included, is rejected with the invalid-action error naming it as given,
\* before any scan or subprocess.
C30_ActionCaseInsensitive ==
    ActionChecked =>
        \A word \in {"fetch", "pull"} :
            LET other == IF word = "fetch" THEN "pull" ELSE "fetch"
            IN  /\ IsCasingOf(flags.action, word) =>
                      /\ action = word
                      /\ runErr = ""
                      /\ stdoutLines[1] = "Scanning directory: " \o PathStr(root)
                                          \o " (Action: " \o word \o ")"
                      /\ \A i \in 1..Len(calls) : calls[i].args[3] = word
                /\ (~IsCasingOf(flags.action, word) /\ ~IsCasingOf(flags.action, other)) =>
                      /\ runErr = "invalid action '" \o flags.action
                                  \o "': must be 'fetch' or 'pull'"
                      /\ pc \in {"returned", "done"}
                      /\ visited = <<>> /\ calls = <<>> /\ stdoutLines = <<>>

\* --action FETCH on a root that is a repository: one "fetch --prune"
C30_Witness ==
    /\ ActionChecked /\ pc = "done"
    /\ flags.action = "FETCH"
    /\ action = "fetch"
    /\ Len(calls) = 1
    /\ calls[1].args = <<"-C", PathStr(root), "fetch", "--prune">>
    /\ exitCode = 0

\* the empty action rejected
C30_WitnessEmpty ==
    /\ ActionChecked /\ pc = "done"
    /\ flags.action = ""
    /\ runErr = "invalid action '': must be 'fetch' or 'pull'"
    /\ exitCode = 1

(***************************************************************************)
(* Branch cleaner: the root command (cmd/root.go).                         *)
(***************************************************************************)
\* values given to --main ("" = not given)
MainFlags == {"", "main", "m"}

\* the listing of the specification's example
ExampleListing == "* main\n  feature-a\n  feature-b\n  main\n"

\* characters of a generated listing
ListingChars == {"*", " ", "\n", "m", "x"}

\* every string of at most n listing characters
RECURSIVE StringsUpTo(_)
StringsUpTo(n) ==
    IF n = 0 THEN {""}
    ELSE LET shorter == StringsUpTo(n - 1)
         IN  shorter \cup {str \o c : str \in shorter, c \in ListingChars}

Listings == StringsUpTo(MaxListing) \cup {ExampleListing}

\* what git show-ref --verify --quiet can do
ProbeOutcomes == {ExitOk(""), ExitFail("", ""), LaunchFail}

\* what git branch --merged <target> can do
ListOutcomes(target) ==
    {ExitOk(l) : l \in Listings} \cup
    {ExitFail("", "error: malformed object name " \o target \o "\n"),
     ExitFail("", "warn: no such ref: " \o target \o "\n"),
     ExitFail("", "fatal: not a git repository\n"),
     LaunchFail}

\* what git branch -d <branch> can do
DeleteOutcomes(branch) ==
    {ExitOk("Deleted branch " \o branch \o ".\n"),
     ExitFail("", "error: The branch '" \o branch \o "' is not fully merged.\n"),
     LaunchFail}

\* the filter without the test for the target branch
KeepBranch_keepTarget(branchName, target) ==
    /\ branchName # ""
    /\ ~HasPrefix(branchName, "* ")

\* the three tests of the filter loop on a trimmed line: TRUE when it is kept
KeepBranch(branchName, target) ==
    /\ branchName # ""
    /\ ~HasPrefix(branchName, "* ")
    /\ branchName # target

\* the filter loop over the lines of the listing
RECURSIVE FilterBranches(_, _)
FilterBranches(lines, target) ==
    IF Len(lines) = 0 THEN <<>>
    ELSE LET branchName == TrimSpace(Head(lines))
         IN  (IF KeepBranch(branchName, target) THEN <<branchName>> ELSE <<>>)
             \o FilterBranches(Tail(lines), target)

\* "  - <branch>" for every candidate
RECURSIVE BulletLines(_)
BulletLines(bs) ==
    IF Len(bs) = 0 THEN <<>> ELSE <<"  - " \o Head(bs)>> \o BulletLines(Tail(bs))

\* step 1 with the detector run whether or not --main is given
CleanStart_alwaysDetect ==
    /\ pc = "setup"
    /\ cmd = "clean"
    /\ \E m \in MainFlags, del \in BOOLEAN, dry \in BOOLEAN :
          /\ flags' = [flags EXCEPT !.main = m, !.delete = del, !.dryRun = dry]
          /\ targetMainBranch' = m
          /\ pc' = "probeMain"
    /\ UNCHANGED <<cmd, fs, root, targetDir, action, repos, visited, idx, calls,
                   stdoutLines, stderrLines, successCount, failCount, branchesToProcess,
                   isDirty, records, runErr, exitCode>>

\* step 1: the flags are read; --main decides whether the detector runs
CleanStart ==
    /\ pc = "setup"
    /\ cmd = "clean"
    /\ \E m \in MainFlags, del \in BOOLEAN, dry \in BOOLEAN :
          /\ flags' = [flags EXCEPT !.main = m, !.delete = del, !.dryRun = dry]
          /\ targetMainBranch' = m
          /\ pc' = IF m = "" THEN "probeMain" ELSE "list"
    /\ UNCHANGED <<cmd, fs, root, targetDir, action, repos, visited, idx, calls,
                   stdoutLines, stderrLines, successCount, failCount, branchesToProcess,
                   isDirty, records, runErr, exitCode>>

\* the first probe with its result not looked at: master is always probed
ProbeMain_ignoreResult ==
    /\ pc = "probeMain"
    /\ \E res \in ProbeOutcomes :
          LET args == <<"show-ref", "--verify", "--quiet", "refs/heads/main">>
          IN  calls' = Append(calls, CallOf(args, res))
    /\ pc' = "probeMaster"
    /\ UNCHANGED <<cmd, fs, root, flags, targetDir, action, repos, visited, idx,
                   stdoutLines, stderrLines, successCount, failCount, targetMainBranch,
                   branchesToProcess, isDirty, records, runErr, exitCode>>

\* DetectDefaultMainBranch, first probe
ProbeMain ==
    /\ pc = "probeMain"
    /\ \E res \in ProbeOutcomes :
          LET args == <<"show-ref", "--verify", "--quiet", "refs/heads/main">>
              r == RunGitCommand(args, res)
          IN  /\ calls' = Append(calls, CallOf(args, res))
              /\ IF r.err = ""
                 THEN targetMainBranch' = "main" /\ pc' = "list"
                 ELSE UNCHANGED targetMainBranch /\ pc' = "probeMaster"
    /\ UNCHANGED <<cmd, fs, root, flags, targetDir, action, repos, visited, idx,
                   stdoutLines, stderrLines, successCount, failCount, branchesToProcess,
                   isDirty, records, runErr, exitCode>>

\* DetectDefaultMainBranch, second probe, and the error when both fail
ProbeMaster ==
    /\ pc = "probeMaster"
    /\ \E res \in ProbeOutcomes :
          LET args == <<"show-ref", "--verify", "--quiet", "refs/heads/master">>
              r == RunGitCommand(args, res)
          IN  /\ calls' = Append(calls, CallOf(args, res))
              /\ IF r.err = ""
                 THEN targetMainBranch' = "master" /\ pc' = "list" /\ UNCHANGED runErr
                 ELSE /\ runErr' = "could not detect default main branch: neither 'main' nor 'master' branch found. Please specify with --main flag"
                      /\ pc' = "returned"
                      /\ UNCHANGED targetMainBranch
    /\ UNCHANGED <<cmd, fs, root, flags, targetDir, action, repos, visited, idx,
                   stdoutLines, stderrLines, successCount, failCount, branchesToProcess,
                   isDirty, records, exitCode>>

\* the error of a failed listing without the test for a missing target
ListingError_generic(err, target) == "failed to list merged branches: " \o err

\* the error RunE returns for a failed listing
ListingError(err, target) ==
    IF Contains(err, "warn: no such ref") \/ Contains(err, "error: malformed object name")
    THEN "specified main branch '" \o target \o "' not found"
    ELSE "failed to list merged branches: " \o err

\* the test of the deletion flag with the report-only branch never taken
ReportsOnly_never(deleteBranches) == FALSE

\* if !deleteBranches {...}: the candidates are only reported
ReportsOnly(deleteBranches) == ~deleteBranches

\* steps 2 to 5 up to the deletion loop: listing, split, filter, report
ListMerged ==
    /\ pc = "list"
    /\ \E res \in ListOutcomes(targetMainBranch) :
          LET args == <<"branch", "--merged", targetMainBranch>>
              r == RunGitCommand(args, res)
              found == FilterBranches(Split(r.output, "\n"), targetMainBranch)
          IN  /\ calls' = Append(calls, CallOf(args, res))
              /\ IF r.err # ""
                 THEN /\ runErr' = ListingError(r.err, targetMainBranch)
                      /\ pc' = "returned"
                      /\ UNCHANGED <<branchesToProcess, stdoutLines, idx>>
                 ELSE /\ branchesToProcess' = found
                      /\ UNCHANGED runErr
                      /\ IF Len(found) = 0
                         THEN /\ stdoutLines' = Append(stdoutLines,
                                    "No local branches found that are merged into "
                                    \o targetMainBranch \o " (excluding the current branch).")
                              /\ pc' = "returned"
                              /\ UNCHANGED idx
                         ELSE IF ReportsOnly(flags.delete)
                         THEN /\ stdoutLines' = stdoutLines \o
                                    <<"The following local branches are merged into "
                                      \o targetMainBranch \o " and can potentially be deleted:">>
                                    \o BulletLines(found)
                                    \o <<"Run with --delete flag (or -d) to remove them.">>
                              /\ pc' = "returned"
                              /\ UNCHANGED idx
                         ELSE /\ stdoutLines' = Append(stdoutLines,
                                    "Processing deletion for branches merged into "
                                    \o targetMainBranch \o "...")
                              /\ idx' = 1
                              /\ pc' = "delete"
    /\ UNCHANGED <<cmd, fs, root, flags, targetDir, action, repos, visited, stderrLines,
                   successCount, failCount, targetMainBranch, isDirty, records, exitCode>>

\* the delete command with the forced variant of the option
DeleteArgs_force(branch) == <<"branch", "-D", branch>>

\* the safe delete command: git branch -d <branch>
DeleteArgs(branch) == <<"branch", "-d", branch>>

\* TRUE when the deletion loop runs git for a candidate
RunsDelete_ignoreDryRun(dry) == TRUE

\* if dryRun {...} else {...}: git runs only in the else branch
RunsDelete(dry) == ~dry

\* one iteration of the deletion loop on branchesToProcess[idx]
DeleteBranch ==
    /\ pc = "delete"
    /\ idx <= Len(branchesToProcess)
    /\ LET branch == branchesToProcess[idx]
       IN  IF ~RunsDelete(flags.dryRun)
           THEN /\ stdoutLines' = Append(stdoutLines,
                      "[Dry Run] Would attempt to delete branch: " \o branch)
                /\ successCount' = successCount + 1
                /\ UNCHANGED <<calls, failCount>>
           ELSE \E res \in DeleteOutcomes(branch) :
                  LET args == DeleteArgs(branch)
                      r == RunGitCommand(args, res)
                      head == "Attempting to delete branch: " \o branch \o "..."
                  IN  /\ calls' = Append(calls, CallOf(args, res))
                      /\ IF r.err # ""
                         THEN /\ stdoutLines' = Append(stdoutLines,
                                    head \o " Failed (" \o r.err \o ")")
                              /\ failCount' = failCount + 1
                              /\ UNCHANGED successCount
                         ELSE /\ stdoutLines' = Append(stdoutLines, head \o " Deleted.")
                              /\ successCount' = successCount + 1
                              /\ UNCHANGED failCount
    /\ idx' = idx + 1
    /\ UNCHANGED <<cmd, pc, fs, root, flags, targetDir, action, repos, visited,
                   stderrLines, targetMainBranch, branchesToProcess, isDirty, records,
                   runErr, exitCode>>

\* the summary after the deletion loop; RunE returns nil
CleanSummary ==
    /\ pc = "delete"
    /\ idx > Len(branchesToProcess)
    /\ stdoutLines' = stdoutLines \o <<"Summary:">> \o
          (IF flags.dryRun
           THEN <<"  Dry run complete. " \o Itoa(successCount)
                  \o " branches would have been targeted for deletion.">>
           ELSE <<"  Successfully deleted: " \o Itoa(successCount),
                  "  Failed to delete:   " \o Itoa(failCount)>>
                \o (IF failCount > 0
                    THEN <<"  (Failures might occur if a branch has unmerged changes specific to it; use 'git branch -D' manually if needed.)">>
                    ELSE <<>>))
    /\ pc' = "returned"
    /\ UNCHANGED <<cmd, fs, root, flags, targetDir, action, repos, visited, idx, calls,
                   stderrLines, successCount, failCount, targetMainBranch,
                   branchesToProcess, isDirty, records, runErr, exitCode>>

InitClean == InitFor("clean")

NextClean ==
    CleanStart \/ ProbeMain \/ ProbeMaster \/ ListMerged \/ DeleteBranch \/ CleanSummary
    \/ Execute

SpecClean == InitClean /\ [][NextClean]_vars

(***************************************************************************)
(* Claims about the branch cleaner, checked under SpecClean.               *)
(***************************************************************************)
\* the recorded subprocesses that are not probes and not the listing
IsListingCall(c) == c.args[1] = "branch" /\ c.args[2] = "--merged"

IsProbeCall(c) == c.args[1] = "show-ref"

DeleteCalls == SelectSeq(calls, LAMBDA c : ~IsListingCall(c) /\ ~IsProbeCall(c))

ListingCalls == SelectSeq(calls, LAMBDA c : IsListingCall(c))

\* the listing command has succeeded and its output has been filtered
Listed == cmd = "clean" /\ Len(ListingCalls) = 1 /\ ~ListingCalls[1].failed

\* the cleaner has returned after a deletion loop over at least one candidate
DeletionFinished ==
    /\ Listed /\ flags.delete
    /\ pc \in {"returned", "done"}
    /\ Len(branchesToProcess) > 0

\* the lines of a raw listing, each trimmed
TrimmedLines(raw) ==
    LET ls == Split(raw, "\n") IN [i \in 1..Len(ls) |-> TrimSpace(ls[i])]

\* the candidate list the claim describes for a raw listing and a target
ExpectedCandidates(raw, target) ==
    SelectSeq(TrimmedLines(raw),
              LAMBDA l : l # "" /\ ~(Len(l) >= 2 /\ SubSeq(l, 1, 2) = "* ") /\ l # target)

\* C5: the candidate list is the trimmed lines of the listing in their order,
\* without the empty lines, the lines marked "* " and the lines equal to the
\* target; the example listing with target main gives feature-a, feature-b.
C5_BranchFilter ==
    Listed =>
        /\ branchesToProcess =
              ExpectedCandidates(ListingCalls[1].stdout, targetMainBranch)
        /\ \A i \in 1..Len(branchesToProcess) :
              /\ branchesToProcess[i] # ""
              /\ branchesToProcess[i] # targetMainBranch
              /\ ~(Len(branchesToProcess[i]) >= 2
                    /\ SubSeq(branchesToProcess[i], 1, 2) = "* ")
        /\ (ListingCalls[1].stdout = ExampleListing /\ targetMainBranch = "main")
              => branchesToProcess = <<"feature-a", "feature-b">>

\* the example listing filtered against target main
C5_Witness ==
    /\ Listed /\ pc = "done"
    /\ ListingCalls[1].stdout = ExampleListing
    /\ targetMainBranch = "main"
    /\ branchesToProcess = <<"feature-a", "feature-b">>

\* "[Dry Run] Would attempt to delete branch: <b>" for every candidate
WouldDeleteLines ==
    [i \in 1..Len(branchesToProcess) |->
        "[Dry Run] Would attempt to delete branch: " \o branchesToProcess[i]]

\* the output of a completed dry-run deletion loop: the heading, one
\* would-delete line per candidate in order, the summary with the count
DryRunReport ==
    <<"Processing deletion for branches merged into " \o targetMainBranch \o "...">>
    \o WouldDeleteLines
    \o <<"Summary:",
         "  Dry run complete. " \o Itoa(Len(branchesToProcess))
         \o " branches would have been targeted for deletion.">>

\* C3 as stated, for any number of candidates: a run with --delete and
\* --dry-run that has listed the branches and returned has run no mutating
\* command and printed the would-delete lines and the summary with the count.
\* Violated when the listing leaves no candidate: the handler then returns
\* after "No local branches found ..." and prints no summary (root.go:71-74).
C3_Original ==
    (cmd = "clean" /\ flags.delete /\ flags.dryRun) =>
        /\ \A i \in 1..Len(calls) : IsListingCall(calls[i]) \/ IsProbeCall(calls[i])
        /\ (Listed /\ pc \in {"returned", "done"}) =>
              /\ stdoutLines = DryRunReport
              /\ runErr = ""

\* C3: with --delete and --dry-run the only subprocesses are the probes and
\* the listing, whatever the candidates; when at least one candidate is found,
\* a finished run has printed one would-delete line per candidate, in order,
\* then a summary with the number of candidates, and returned nil.
C3_DryRunNeverMutates ==
    (cmd = "clean" /\ flags.delete /\ flags.dryRun) =>
        /\ \A i \in 1..Len(calls) : IsListingCall(calls[i]) \/ IsProbeCall(calls[i])
        /\ DeletionFinished =>
              /\ stdoutLines = DryRunReport
              /\ successCount = Len(branchesToProcess)
              /\ failCount = 0
              /\ runErr = ""
              /\ pc = "done" => exitCode = 0
        /\ (Listed /\ pc \in {"returned", "done"} /\ Len(branchesToProcess) = 0) =>
              /\ stdoutLines =
                    <<"No local branches found that are merged into "
                      \o targetMainBranch \o " (excluding the current branch).">>
              /\ runErr = ""

\* a finished dry run over two candidates
C3_Witness ==
    /\ cmd = "clean" /\ flags.delete /\ flags.dryRun
    /\ DeletionFinished /\ pc = "done"
    /\ Len(branchesToProcess) = 2
    /\ Len(calls) = 1

\* C4: with --delete and no --dry-run the i-th delete subprocess is
\* git branch -d on the i-th candidate; the counters count the failed and the
\* succeeded deletes; a finished run has attempted every candidate once.
C4_DeleteFailureIsolation ==
    (cmd = "clean" /\ flags.delete /\ ~flags.dryRun) =>
        /\ Len(DeleteCalls) <= Len(branchesToProcess)
        /\ \A i \in 1..Len(DeleteCalls) :
              DeleteCalls[i].args = <<"branch", "-d", branchesToProcess[i]>>
        /\ failCount = Cardinality({i \in 1..Len(DeleteCalls) : DeleteCalls[i].failed})
        /\ successCount = Cardinality({i \in 1..Len(DeleteCalls) : ~DeleteCalls[i].failed})
        /\ DeletionFinished =>
              /\ Len(DeleteCalls) = Len(branchesToProcess)
              /\ successCount + failCount = Len(branchesToProcess)
              /\ runErr = ""

\* a finished deletion of two candidates whose first delete failed
C4_Witness ==
    /\ cmd = "clean" /\ flags.delete /\ ~flags.dryRun
    /\ DeletionFinished /\ pc = "done"
    /\ Len(DeleteCalls) = 2
    /\ DeleteCalls[1].failed /\ ~DeleteCalls[2].failed
    /\ failCount = 1 /\ successCount = 1

\* the report printed when the deletion flag is not set
ReportLines ==
    <<"The following local branches are merged into "
      \o targetMainBranch \o " and can potentially be deleted:">>
    \o [i \in 1..Len(branchesToProcess) |-> "  - " \o branchesToProcess[i]]
    \o <<"Run with --delete flag (or -d) to remove them.">>

\* C11: a delete subprocess is run only when --delete is set and --dry-run is
\* not; without --delete, whatever --dry-run is, a run that found candidates
\* prints the candidate list and nothing else, counts nothing and returns nil.
C11_ReportOnlyWithoutDelete ==
    cmd = "clean" =>
        /\ Len(DeleteCalls) > 0 => (flags.delete /\ ~flags.dryRun)
        /\ (~flags.delete /\ Listed /\ pc \in {"returned", "done"}
              /\ Len(branchesToProcess) > 0) =>
              /\ stdoutLines = ReportLines
              /\ \A i \in 1..Len(calls) : IsListingCall(calls[i]) \/ IsProbeCall(calls[i])
              /\ successCount = 0 /\ failCount = 0
              /\ runErr = ""

\* a finished run without --delete and without --dry-run that reported two candidates
C11_Witness ==
    /\ cmd = "clean" /\ ~flags.delete /\ ~flags.dryRun
    /\ Listed /\ pc = "done"
    /\ Len(branchesToProcess) = 2
    /\ Len(stdoutLines) = 4
    /\ Len(DeleteCalls) = 0

\* the probes run so far
ProbeCalls == SelectSeq(calls, LAMBDA c : IsProbeCall(c))

ProbeOf(branch) == <<"show-ref", "--verify", "--quiet", "refs/heads/" \o branch>>

\* detection has ended: the handler is past both probe positions
DetectionEnded == cmd = "clean" /\ pc \notin {"setup", "probeMain", "probeMaster"}

\* C12: without --main the first probe is for main; if it does not fail the
\* target is main and master is never probed; if it fails, for whatever cause,
\* master is probed next and is the target if that probe does not fail; if both
\* fail the handler returns the error asking for --main and lists nothing.
\* With --main given there is no probe at all.
C12_DefaultBranchDetection ==
    DetectionEnded =>
        IF flags.main # ""
        THEN ProbeCalls = <<>> /\ targetMainBranch = flags.main
        ELSE /\ Len(ProbeCalls) \in {1, 2}
             /\ ProbeCalls = SubSeq(calls, 1, Len(ProbeCalls))
             /\ ProbeCalls[1].args = ProbeOf("main")
             /\ ~ProbeCalls[1].failed <=> Len(ProbeCalls) = 1
             /\ ~ProbeCalls[1].failed => targetMainBranch = "main"
             /\ ProbeCalls[1].failed =>
                   /\ ProbeCalls[2].args = ProbeOf("master")
                   /\ IF ~ProbeCalls[2].failed
                      THEN targetMainBranch = "master"
                      ELSE /\ runErr = "could not detect default main branch: neither 'main' nor 'master' branch found. Please specify with --main flag"
                           /\ pc \in {"returned", "done"}
                           /\ Len(calls) = 2
                           /\ stdoutLines = <<>>

\* main exists and was chosen after one probe
C12_WitnessMain ==
    /\ DetectionEnded /\ flags.main = "" /\ pc = "done"
    /\ Len(ProbeCalls) = 1 /\ ~ProbeCalls[1].failed
    /\ targetMainBranch = "main"
    /\ Len(calls) > 1

\* the probe for main could not even be launched, the probe for master succeeded
C12_Witness ==
    /\ DetectionEnded /\ flags.main = "" /\ pc = "done"
    /\ Len(ProbeCalls) = 2
    /\ ProbeCalls[1].failed /\ ProbeCalls[1].procErr = LaunchFail.procErr
    /\ ~ProbeCalls[2].failed
    /\ targetMainBranch = "master"
    /\ Len(branchesToProcess) > 0

\* both probes of the detector have failed
DetectionFailed ==
    Len(ProbeCalls) = 2 /\ ProbeCalls[1].failed /\ ProbeCalls[2].failed

\* C21: with --main given no probe is ever run and every listing is taken
\* against the given name unchanged; without --main the first subprocess is a
\* probe, and when detection fails the handler returns its error with no
\* listing and no delete subprocess run, and the process exits 1.
C21_DetermineTarget ==
    (cmd = "clean" /\ pc # "setup") =>
        /\ flags.main # "" =>
              /\ ProbeCalls = <<>>
              /\ targetMainBranch = flags.main
              /\ \A i \in 1..Len(ListingCalls) :
                    ListingCalls[i].args = <<"branch", "--merged", flags.main>>
        /\ flags.main = "" =>
              /\ Len(calls) > 0 => IsProbeCall(calls[1])
              /\ pc # "probeMain" => Len(ProbeCalls) > 0
              /\ Len(ListingCalls) > 0 =>
                    (~DetectionFailed /\ ~ProbeCalls[Len(ProbeCalls)].failed)
              /\ DetectionFailed =>
                    /\ pc \in {"returned", "done"}
                    /\ HasPrefix(runErr, "could not detect default main branch: ")
                    /\ ListingCalls = <<>> /\ DeleteCalls = <<>>
                    /\ branchesToProcess = <<>>
                    /\ pc = "done" => exitCode = 1

\* --main m: the listing is taken against m and a branch is deleted without
\* any probe having run
C21_Witness ==
    /\ cmd = "clean" /\ pc = "done"
    /\ flags.main = "m"
    /\ ProbeCalls = <<>>
    /\ ListingCalls[1].args = <<"branch", "--merged", "m">>
    /\ Len(DeleteCalls) = 1 /\ ~DeleteCalls[1].failed

\* no --main and both probes failed: exit 1 after two subprocesses
C21_WitnessDetectionFailed ==
    /\ cmd = "clean" /\ pc = "done"
    /\ flags.main = "" /\ DetectionFailed
    /\ Len(calls) = 2
    /\ exitCode = 1

\* the text of the error the runner returned for the listing
ListingErrText ==
    "command 'git " \o Join(ListingCalls[1].args, " ") \o "' failed: "
    \o ListingCalls[1].procErr \o "\nStderr: " \o ListingCalls[1].stderr

\* the listing was run and failed
ListingHasFailed == cmd = "clean" /\ Len(ListingCalls) = 1 /\ ListingCalls[1].failed

\* C22: a listing that fails with an error text containing "warn: no such ref"
\* or "error: malformed object name" makes the handler return "specified main
\* branch '<target>' not found"; any other failed listing makes it return
\* "failed to list merged branches: " with the runner's error; either way
\* nothing is filtered or printed, no delete subprocess runs, and the exit is 1.
C22_ListingFailure ==
    ListingHasFailed =>
        /\ pc \in {"returned", "done"}
        /\ runErr =
              (IF Contains(ListingErrText, "warn: no such ref")
                  \/ Contains(ListingErrText, "error: malformed object name")
               THEN "specified main branch '" \o targetMainBranch \o "' not found"
               ELSE "failed to list merged branches: " \o ListingErrText)
        /\ branchesToProcess = <<>>
        /\ DeleteCalls = <<>>
        /\ stdoutLines = <<>>
        /\ successCount = 0 /\ failCount = 0
        /\ pc = "done" => exitCode = 1

\* --main m does not exist: git reports a malformed object name and the
\* handler names m in its error
C22_Witness ==
    /\ ListingHasFailed /\ pc = "done"
    /\ flags.main = "m" /\ flags.delete
    /\ ListingCalls[1].stderr = "error: malformed object name m\n"
    /\ runErr = "specified main branch 'm' not found"
    /\ exitCode = 1

\* a listing outside a repository: the generic error carries the runner's error
C22_WitnessGeneric ==
    /\ ListingHasFailed /\ pc = "done"
    /\ targetMainBranch = "master"
    /\ runErr = "failed to list merged branches: command 'git branch --merged master' failed: exit status 1\nStderr: fatal: not a git repository\n"

(***************************************************************************)
(* status command (cmd/status.go).                                         *)
(***************************************************************************)
\* what git status --porcelain=v1 can do
PorcelainOutcomes ==
    {ExitOk(""), ExitOk(" M main.go\n"), ExitFail("", "fatal: not a git repository\n")}

\* the ahead and behind counts git reports in the model
CountPairs ==
    ({0, MaxCount} \X {0, MaxCount}) \cup {<<2, 0>>, <<0, 3>>, <<4, 1>>, <<12, 10>>}

\* outputs "<ahead>\t<behind>\n" of git rev-list --left-right --count
CountOutputs == {Itoa(p[1]) \o "\t" \o Itoa(p[2]) \o "\n" : p \in CountPairs}

\* what git rev-list --left-right --count HEAD...@{u} can do
RevOutcomes ==
    {ExitOk(o) : o \in CountOutputs}
    \cup {ExitOk(""), ExitOk("7\n"), ExitOk("1\t2\t3\n"), ExitOk("x\ty\n"), ExitOk("-1\t2\n")}
    \cup {ExitFail("", "fatal: no upstream configured for branch 'main'\n"),
          ExitFail("", "fatal: ambiguous argument 'HEAD...@{u}': unknown revision or path not in the working tree.\n"),
          ExitFail("", "fatal: not a git repository\n"),
          LaunchFail}

StatusArgs(repoPath) == <<"-C", PathStr(repoPath), "status", "--porcelain=v1">>

RevListArgs(repoPath) ==
    <<"-C", PathStr(repoPath), "rev-list", "--left-right", "--count", "HEAD...@{u}">>

\* the dirty flag with a failed status query not counted
IsDirtyOf_ignoreErr(output, err) == output # ""

\* isDirty after the status query: the query failed or printed something
IsDirtyOf(output, err) == err # "" \/ output # ""

\* the suffix with the test for both counts forgotten
CountSuffix_noDiverged(ahead, behind) ==
    IF ahead > 0 THEN " [Ahead " \o Itoa(ahead) \o "]"
    ELSE IF behind > 0 THEN " [Behind " \o Itoa(behind) \o "]"
    ELSE ""

\* the if/else-if chain over the two counts
CountSuffix(ahead, behind) ==
    IF ahead > 0 /\ behind > 0
    THEN " [Ahead " \o Itoa(ahead) \o ", Behind " \o Itoa(behind) \o "]"
    ELSE IF ahead > 0 THEN " [Ahead " \o Itoa(ahead) \o "]"
    ELSE IF behind > 0 THEN " [Behind " \o Itoa(behind) \o "]"
    ELSE ""

\* the ahead/behind section with a parse failure shown like a command failure
Upstream_sameError(revOutput, err) ==
    IF err # ""
    THEN IF Contains(err, "no upstream configured") \/ Contains(err, "unknown revision")
         THEN [ahead |-> 0, behind |-> 0, status |-> " [No Upstream]", warn |-> FALSE]
         ELSE [ahead |-> 0, behind |-> 0, status |-> " [Error]", warn |-> TRUE]
    ELSE LET parts == Split(TrimSpace(revOutput), "\t")
         IN  IF Len(parts) = 2
             THEN [ahead |-> Atoi(parts[1]), behind |-> Atoi(parts[2]),
                   status |-> CountSuffix(Atoi(parts[1]), Atoi(parts[2])),
                   warn |-> FALSE]
             ELSE [ahead |-> 0, behind |-> 0, status |-> " [Error]", warn |-> FALSE]

\* the ahead/behind section with a field that is not a number taken as a parse failure
Upstream_strictFields(revOutput, err) ==
    IF err # ""
    THEN IF Contains(err, "no upstream configured") \/ Contains(err, "unknown revision")
         THEN [ahead |-> 0, behind |-> 0, status |-> " [No Upstream]", warn |-> FALSE]
         ELSE [ahead |-> 0, behind |-> 0, status |-> " [Error]", warn |-> TRUE]
    ELSE LET parts == Split(TrimSpace(revOutput), "\t")
         IN  IF Len(parts) = 2 /\ IsDigits(parts[1]) /\ IsDigits(parts[2])
             THEN [ahead |-> Atoi(parts[1]), behind |-> Atoi(parts[2]),
                   status |-> CountSuffix(Atoi(parts[1]), Atoi(parts[2])),
                   warn |-> FALSE]
             ELSE [ahead |-> 0, behind |-> 0, status |-> " [Error Parsing Revs]",
                   warn |-> FALSE]

\* the ahead/behind section with only the first of the two phrases looked for
Upstream_onePhrase(revOutput, err) ==
    IF err # ""
    THEN IF Contains(err, "no upstream configured")
         THEN [ahead |-> 0, behind |-> 0, status |-> " [No Upstream]", warn |-> FALSE]
         ELSE [ahead |-> 0, behind |-> 0, status |-> " [Error]", warn |-> TRUE]
    ELSE LET parts == Split(TrimSpace(revOutput), "\t")
         IN  IF Len(parts) = 2
             THEN [ahead |-> Atoi(parts[1]), behind |-> Atoi(parts[2]),
                   status |-> CountSuffix(Atoi(parts[1]), Atoi(parts[2])),
                   warn |-> FALSE]
             ELSE [ahead |-> 0, behind |-> 0, status |-> " [Error Parsing Revs]",
                   warn |-> FALSE]

\* the ahead/behind section of the loop body: counts, suffix, warning or not
Upstream(revOutput, err) ==
    IF err # ""
    THEN IF Contains(err, "no upstream configured") \/ Contains(err, "unknown revision")
         THEN [ahead |-> 0, behind |-> 0, status |-> " [No Upstream]", warn |-> FALSE]
         ELSE [ahead |-> 0, behind |-> 0, status |-> " [Error]", warn |-> TRUE]
    ELSE LET parts == Split(TrimSpace(revOutput), "\t")
         IN  IF Len(parts) = 2
             THEN [ahead |-> Atoi(parts[1]), behind |-> Atoi(parts[2]),
                   status |-> CountSuffix(Atoi(parts[1]), Atoi(parts[2])),
                   warn |-> FALSE]
             ELSE [ahead |-> 0, behind |-> 0, status |-> " [Error Parsing Revs]",
                   warn |-> FALSE]

\* a status line that shows the upstream state of clean repositories only
FinalStatus_dirtyOnly(dirty, upstreamStatus) ==
    IF dirty THEN "Dirty" ELSE "Clean" \o upstreamStatus

\* the if/else-if chain that builds finalStatus
FinalStatus(dirty, upstreamStatus) ==
    IF dirty THEN "Dirty" \o upstreamStatus
    ELSE IF upstreamStatus # "" /\ ~HasPrefix(upstreamStatus, " [Error")
            /\ upstreamStatus # " [No Upstream]"
    THEN "Clean" \o upstreamStatus
    ELSE IF upstreamStatus # "" THEN "Clean" \o upstreamStatus
    ELSE "Clean"

\* target directory, up to the call of the Locator
StatusStart ==
    /\ pc = "setup"
    /\ cmd = "status"
    /\ \E d \in DirectoryValues(root), getwdOk \in BOOLEAN :
          LET t == TargetDirectory(d, getwdOk, WorkingDir(d, root))
          IN  /\ flags' = [flags EXCEPT !.directory = d]
              /\ IF t.err # ""
                 THEN /\ runErr' = t.err
                      /\ pc' = "returned"
                      /\ UNCHANGED <<targetDir, stdoutLines>>
                 ELSE /\ t.path = PathStr(root)
                      /\ targetDir' = root
                      /\ stdoutLines' = Append(stdoutLines,
                            "Scanning directory: " \o t.path)
                      /\ pc' = "find"
                      /\ UNCHANGED runErr
    /\ UNCHANGED <<cmd, fs, root, action, repos, visited, idx, calls, stderrLines,
                   successCount, failCount, targetMainBranch, branchesToProcess, isDirty,
                   records, exitCode>>

\* the call of the Locator and the two early returns after it
StatusFind ==
    /\ pc = "find"
    /\ cmd = "status"
    /\ \E r \in {FindGitRepos(fs, targetDir)} :
           /\ repos' = r.repos
           /\ visited' = r.visited
           /\ stderrLines' = stderrLines \o r.warnings
           /\ IF r.err # ""
              THEN /\ runErr' = "error finding repositories: " \o r.err
                   /\ pc' = "returned"
                   /\ UNCHANGED <<stdoutLines, idx>>
              ELSE IF Len(r.repos) = 0
              THEN /\ stdoutLines' = Append(stdoutLines,
                         "No Git repositories found in the specified directory.")
                   /\ pc' = "returned"
                   /\ UNCHANGED <<runErr, idx>>
              ELSE /\ stdoutLines' = Append(stdoutLines, "--- Repository Status ---")
                   /\ idx' = 1
                   /\ pc' = "loop"
                   /\ UNCHANGED runErr
    /\ UNCHANGED <<cmd, fs, root, flags, targetDir, action, calls, successCount, failCount,
                   targetMainBranch, branchesToProcess, isDirty, records, exitCode>>

\* the status query with a failure ending the iteration: no line for the repository
StatusQuery_skipFailed ==
    /\ pc = "loop"
    /\ cmd = "status"
    /\ idx <= Len(repos)
    /\ \E res \in PorcelainOutcomes :
          LET args == StatusArgs(repos[idx])
              r == RunGitCommand(args, res)
          IN  /\ calls' = Append(calls, CallOf(args, res))
              /\ isDirty' = (r.err = "" /\ r.output # "")
              /\ IF r.err # ""
                 THEN /\ stderrLines' = Append(stderrLines,
                            "Warning: failed to get status for "
                            \o RelPath(targetDir, repos[idx]) \o ": " \o r.err)
                      /\ idx' = idx + 1
                      /\ pc' = "loop"
                 ELSE /\ pc' = "compare"
                      /\ UNCHANGED <<stderrLines, idx>>
    /\ UNCHANGED <<cmd, fs, root, flags, targetDir, action, repos, visited,
                   stdoutLines, successCount, failCount, targetMainBranch,
                   branchesToProcess, records, runErr, exitCode>>

\* first half of an iteration: the working-tree status query on repos[idx]
StatusQuery ==
    /\ pc = "loop"
    /\ cmd = "status"
    /\ idx <= Len(repos)
    /\ \E res \in PorcelainOutcomes :
          LET args == StatusArgs(repos[idx])
              r == RunGitCommand(args, res)
          IN  /\ calls' = Append(calls, CallOf(args, res))
              /\ isDirty' = IsDirtyOf(r.output, r.err)
              /\ stderrLines' =
                    IF r.err # ""
                    THEN Append(stderrLines,
                            "Warning: failed to get status for "
                            \o RelPath(targetDir, repos[idx]) \o ": " \o r.err)
                    ELSE stderrLines
    /\ pc' = "compare"
    /\ UNCHANGED <<cmd, fs, root, flags, targetDir, action, repos, visited, idx,
                   stdoutLines, successCount, failCount, targetMainBranch,
                   branchesToProcess, records, runErr, exitCode>>

\* second half: the comparison query, the classification and the status line
StatusCompare ==
    /\ pc = "compare"
    /\ cmd = "status"
    /\ \E res \in RevOutcomes :
          LET repoPath == repos[idx]
              relPath == RelPath(targetDir, repoPath)
              args == RevListArgs(repoPath)
              r == RunGitCommand(args, res)
              u == Upstream(r.output, r.err)
              finalStatus == FinalStatus(isDirty, u.status)
          IN  /\ calls' = Append(calls, CallOf(args, res))
              /\ stderrLines' =
                    IF u.warn
                    THEN Append(stderrLines,
                            "Warning: failed to get ahead/behind count for "
                            \o relPath \o ": " \o r.err)
                    ELSE stderrLines
              /\ stdoutLines' = Append(stdoutLines,
                    PadRight(relPath, MaxRelLen(targetDir, repos)) \o " : " \o finalStatus)
              /\ records' = Append(records,
                    [repo |-> repoPath, isDirty |-> isDirty, ahead |-> u.ahead,
                     behind |-> u.behind, upstreamStatus |-> u.status,
                     finalStatus |-> finalStatus])
    /\ idx' = idx + 1
    /\ isDirty' = FALSE
    /\ pc' = "loop"
    /\ UNCHANGED <<cmd, fs, root, flags, targetDir, action, repos, visited, successCount,
                   failCount, targetMainBranch, branchesToProcess, runErr, exitCode>>

\* the loop is over; RunE returns nil
StatusReturn ==
    /\ pc = "loop"
    /\ cmd = "status"
    /\ idx > Len(repos)
    /\ pc' = "returned"
    /\ UNCHANGED <<cmd, fs, root, flags, targetDir, action, repos, visited, idx, calls,
                   stdoutLines, stderrLines, successCount, failCount, targetMainBranch,
                   branchesToProcess, isDirty, records, runErr, exitCode>>

InitStatus == InitFor("status")

NextStatus ==
    Mkdir \/ StatusStart \/ StatusFind \/ StatusQuery \/ StatusCompare \/ StatusReturn
    \/ Execute

SpecStatus == InitStatus /\ [][NextStatus]_vars

(***************************************************************************)
(* Claims about the status command, checked under SpecStatus.              *)
(***************************************************************************)
\* the two subprocesses of the i-th status record
QueryCall(i) == calls[2 * i - 1]

CompareCall(i) == calls[2 * i]

\* the four classifications by the counts, and the suffix each is shown with
CountClass(a, b) ==
    IF a > 0 /\ b > 0 THEN "Diverged"
    ELSE IF a > 0 THEN "Ahead"
    ELSE IF b > 0 THEN "Behind"
    ELSE "Synced"

ClassSuffix(class, a, b) ==
    CASE class = "Diverged" -> " [Ahead " \o Itoa(a) \o ", Behind " \o Itoa(b) \o "]"
      [] class = "Ahead" -> " [Ahead " \o Itoa(a) \o "]"
      [] class = "Behind" -> " [Behind " \o Itoa(b) \o "]"
      [] class = "Synced" -> ""

\* the comparison of record i succeeded and printed the counts a and b
PrintedCounts(i, a, b) ==
    /\ ~CompareCall(i).failed
    /\ CompareCall(i).stdout = Itoa(a) \o "\t" \o Itoa(b) \o "\n"

\* C6: a comparison that succeeds with "<a>\t<b>" gives a record with ahead = a
\* and behind = b that is shown as Diverged, Ahead, Behind or Synced by the
\* signs of the two counts.
C6_DivergenceClassification ==
    cmd = "status" =>
        \A i \in 1..Len(records) : \A a, b \in {0, 1, 2, 3, 4, 10, 12, MaxCount} :
            (<<a, b>> \in CountPairs /\ PrintedCounts(i, a, b)) =>
                /\ records[i].ahead = a
                /\ records[i].behind = b
                /\ records[i].upstreamStatus = ClassSuffix(CountClass(a, b), a, b)
                /\ (a = 2 /\ b = 0) => records[i].upstreamStatus = " [Ahead 2]"
                /\ (a = 0 /\ b = 3) => records[i].upstreamStatus = " [Behind 3]"
                /\ (a = 4 /\ b = 1) => records[i].upstreamStatus = " [Ahead 4, Behind 1]"
                /\ (a = 0 /\ b = 0) => records[i].upstreamStatus = ""

\* a finished run over two repositories, the first diverged by 4 and 1, the
\* second ahead by 2
C6_Witness ==
    /\ cmd = "status" /\ pc = "done"
    /\ Len(records) = 2
    /\ PrintedCounts(1, 4, 1) /\ records[1].upstreamStatus = " [Ahead 4, Behind 1]"
    /\ PrintedCounts(2, 2, 0) /\ records[2].ahead = 2 /\ records[2].behind = 0

\* C7: a record is dirty exactly when its status query failed or returned
\* non-empty output, whatever the comparison query did, and the status line
\* starts with Dirty exactly then.
C7_DirtyFlag ==
    cmd = "status" =>
        \A i \in 1..Len(records) :
            LET queryDirty == QueryCall(i).failed \/ TrimSpace(QueryCall(i).stdout) # ""
            IN  /\ records[i].isDirty = queryDirty
                /\ records[i].finalStatus =
                      (IF queryDirty THEN "Dirty" ELSE "Clean") \o records[i].upstreamStatus

\* a dirty diverged repository after one whose status query failed and whose
\* comparison failed too
C7_Witness ==
    /\ cmd = "status" /\ pc = "done"
    /\ Len(records) = 2
    /\ QueryCall(1).failed /\ CompareCall(1).failed
    /\ records[1].finalStatus = "Dirty [Error]"
    /\ ~QueryCall(2).failed
    /\ records[2].finalStatus = "Dirty [Ahead 4, Behind 1]"

\* the status lines printed so far, after the two heading lines
StatusLines == SubSeq(stdoutLines, 3, Len(stdoutLines))

\* the status loop was entered and the handler has returned
StatusFinished == cmd = "status" /\ pc \in {"returned", "done"} /\ Len(repos) > 0

\* C14: the i-th status line is the line of the i-th path the Locator
\* returned; a finished run has printed exactly one line per path, whatever
\* the status query or the comparison query of a repository did.
C14_OneRecordPerRepo ==
    (cmd = "status" /\ Len(repos) > 0) =>
        /\ Len(StatusLines) <= Len(repos)
        /\ Len(records) = Len(StatusLines)
        /\ \A i \in 1..Len(StatusLines) :
              /\ records[i].repo = repos[i]
              /\ QueryCall(i).args[2] = PathStr(repos[i])
              /\ CompareCall(i).args[2] = PathStr(repos[i])
              /\ StatusLines[i] =
                    PadRight(RelPath(targetDir, repos[i]), MaxRelLen(targetDir, repos))
                    \o " : " \o records[i].finalStatus
        /\ StatusFinished =>
              /\ Len(StatusLines) = Len(repos)
              /\ Len(calls) = 2 * Len(repos)
              /\ runErr = ""

\* a finished run over two repositories: the status query of the first failed,
\* the comparison of the second failed, and both have their line
C14_Witness ==
    /\ StatusFinished /\ pc = "done"
    /\ Len(repos) = 2
    /\ QueryCall(1).failed /\ ~CompareCall(1).failed
    /\ ~QueryCall(2).failed /\ CompareCall(2).failed
    /\ Len(StatusLines) = 2
    /\ records[2].repo = Append(root, "unknown revision")

\* the text of the error the runner returned for the comparison of record i
CompareErrText(i) ==
    "command 'git " \o Join(CompareCall(i).args, " ") \o "' failed: "
    \o CompareCall(i).procErr \o "\nStderr: " \o CompareCall(i).stderr

HasUpstreamPhrase(text) ==
    Contains(text, "no upstream configured") \/ Contains(text, "unknown revision")

\* the warnings printed for the comparison of record i
CompareWarnings(i) ==
    SelectSeq(stderrLines,
              LAMBDA l : HasPrefix(l, "Warning: failed to get ahead/behind count for "
                                      \o RelPath(targetDir, repos[i]) \o ": "))

\* C15: a comparison that fails with an error text containing "no upstream
\* configured" or "unknown revision" gives a record shown as No Upstream with
\* both counts 0 and no warning for it; the loop goes on to the next
\* repository and the finished command returns nil and exits 0.
C15_NoUpstreamIsExpected ==
    cmd = "status" =>
        /\ \A i \in 1..Len(records) :
              (CompareCall(i).failed /\ HasUpstreamPhrase(CompareErrText(i))) =>
                  /\ records[i].upstreamStatus = " [No Upstream]"
                  /\ records[i].ahead = 0 /\ records[i].behind = 0
                  /\ CompareWarnings(i) = <<>>
                  /\ records[i].finalStatus \in {"Clean [No Upstream]", "Dirty [No Upstream]"}
        /\ StatusFinished =>
              /\ Len(records) = Len(repos)
              /\ runErr = ""
              /\ pc = "done" => exitCode = 0

\* a finished run whose first repository has no upstream ("unknown revision"
\* in git's message) and whose second is ahead by 2; nothing was printed to stderr
C15_Witness ==
    /\ StatusFinished /\ pc = "done"
    /\ Len(records) = 2
    /\ CompareCall(1).failed
    /\ Contains(CompareCall(1).stderr, "unknown revision")
    /\ records[1].finalStatus = "Clean [No Upstream]"
    /\ records[2].finalStatus = "Clean [Ahead 2]"
    /\ stderrLines = <<>>
    /\ exitCode = 0

\* number of tab-separated fields of a text
FieldCount(text) == 1 + Cardinality({k \in 1..Len(text) : CharAt(text, k) = "\t"})

\* what the runner returned as the output of the comparison of record i
CompareOutput(i) == TrimSpace(CompareCall(i).stdout)

\* C17: a comparison that succeeds with an output that is not exactly two
\* tab-separated fields (empty, one field, three or more) gives a record shown
\* as Error Parsing Revs with both counts 0; a comparison that failed is never
\* shown so, and a parse failure is never shown as a plain Error.
C17_ParseFailure ==
    cmd = "status" =>
        \A i \in 1..Len(records) :
            /\ (~CompareCall(i).failed /\ FieldCount(CompareOutput(i)) # 2) =>
                  /\ records[i].upstreamStatus = " [Error Parsing Revs]"
                  /\ records[i].ahead = 0 /\ records[i].behind = 0
                  /\ records[i].finalStatus \in
                        {"Clean [Error Parsing Revs]", "Dirty [Error Parsing Revs]"}
            /\ CompareCall(i).failed =>
                  records[i].upstreamStatus \in {" [Error]", " [No Upstream]"}
            /\ (~CompareCall(i).failed /\ FieldCount(CompareOutput(i)) = 2) =>
                  records[i].upstreamStatus # " [Error Parsing Revs]"

\* a finished run whose first comparison printed nothing and whose second
\* printed three fields
C17_Witness ==
    /\ StatusFinished /\ pc = "done"
    /\ Len(records) = 2
    /\ ~CompareCall(1).failed /\ CompareCall(1).stdout = ""
    /\ ~CompareCall(2).failed /\ CompareCall(2).stdout = "1\t2\t3\n"
    /\ records[1].upstreamStatus = " [Error Parsing Revs]"
    /\ records[2].finalStatus = "Clean [Error Parsing Revs]"

\* the two fields of a text with one tab
FieldsOf(text) ==
    LET k == CHOOSE n \in 1..Len(text) : CharAt(text, n) = "\t"
    IN  <<SubSeq(text, 1, k - 1), SubSeq(text, k + 1, Len(text))>>

\* an optional sign followed by decimal digits
IsInteger(str) ==
    \/ IsDigits(str)
    \/ Len(str) > 1 /\ CharAt(str, 1) \in {"+", "-"} /\ IsDigits(SubSeq(str, 2, Len(str)))

\* a count as the classification sees it
AtLeastZero(n) == IF n < 0 THEN 0 ELSE n

\* C29: a comparison that succeeds with exactly two tab-separated fields is
\* never a parse failure or an error and prints no warning; a field that is
\* not an integer is recorded as the count 0; the record is classified as if
\* each negative count were 0; so "x<TAB>y" gives the counts and the empty
\* (synced) status of "0<TAB>0", and "-1<TAB>2" is shown as Behind 2.
C29_LenientCounts ==
    cmd = "status" =>
        /\ \A i \in 1..Len(records) :
              (~CompareCall(i).failed /\ FieldCount(CompareOutput(i)) = 2) =>
                  LET fields == FieldsOf(CompareOutput(i))
                      a == records[i].ahead
                      b == records[i].behind
                  IN  /\ records[i].upstreamStatus \notin {" [Error Parsing Revs]", " [Error]"}
                      /\ CompareWarnings(i) = <<>>
                      /\ ~IsInteger(fields[1]) => a = 0
                      /\ ~IsInteger(fields[2]) => b = 0
                      /\ records[i].upstreamStatus =
                            ClassSuffix(CountClass(AtLeastZero(a), AtLeastZero(b)), a, b)
                      /\ CompareOutput(i) = "x\ty" =>
                            /\ a = 0 /\ b = 0
                            /\ records[i].finalStatus \in {"Clean", "Dirty"}
                      /\ CompareOutput(i) = "-1\t2" =>
                            /\ a = -1 /\ b = 2
                            /\ records[i].upstreamStatus = " [Behind 2]"
        /\ \A i, j \in 1..Len(records) :
              (/\ ~CompareCall(i).failed /\ CompareOutput(i) = "x\ty"
               /\ ~CompareCall(j).failed /\ CompareOutput(j) = "0\t0") =>
                  /\ records[i].upstreamStatus = records[j].upstreamStatus
                  /\ records[i].ahead = records[j].ahead
                  /\ records[i].behind = records[j].behind

\* a finished run whose first comparison printed two words and whose second
\* printed a negative count
C29_Witness ==
    /\ StatusFinished /\ Len(records) = 2
    /\ ~CompareCall(1).failed /\ CompareCall(1).stdout = "x\ty\n"
    /\ records[1].finalStatus = "Clean"
    /\ ~CompareCall(2).failed /\ CompareCall(2).stdout = "-1\t2\n"
    /\ records[2].ahead = -1
    /\ records[2].upstreamStatus = " [Behind 2]"

\* the cause of a failed comparison, as the git process reported it
MissingUpstreamCause(c) == HasUpstreamPhrase(c.procErr) \/ HasUpstreamPhrase(c.stderr)

\* C16: a comparison that fails for a cause other than a missing upstream
\* gives a record shown as Error with both counts 0 and a warning, for every
\* repository path and every cause.
C16_OtherFailureIsError ==
    cmd = "status" =>
        \A i \in 1..Len(records) :
            (CompareCall(i).failed /\ ~MissingUpstreamCause(CompareCall(i))) =>
                /\ records[i].upstreamStatus = " [Error]"
                /\ records[i].ahead = 0 /\ records[i].behind = 0
                /\ Len(CompareWarnings(i)) = 1

\* the same for the repositories whose path holds neither phrase
C16_ErrorWhenPathIsPlain ==
    cmd = "status" =>
        \A i \in 1..Len(records) :
            (CompareCall(i).failed /\ ~MissingUpstreamCause(CompareCall(i))
              /\ ~HasUpstreamPhrase(PathStr(repos[i]))) =>
                /\ records[i].upstreamStatus = " [Error]"
                /\ records[i].ahead = 0 /\ records[i].behind = 0
                /\ Len(CompareWarnings(i)) = 1

\* the repository /w/unknown revision, whose comparison failed with "not a git
\* repository", shown as No Upstream without a warning
C16_Misclassified ==
    /\ cmd = "status" /\ pc = "done"
    /\ \E i \in 1..Len(records) :
          /\ Base(repos[i]) = "unknown revision"
          /\ CompareCall(i).failed
          /\ CompareCall(i).stderr = "fatal: not a git repository\n"
          /\ records[i].upstreamStatus = " [No Upstream]"
          /\ CompareWarnings(i) = <<>>

\* what the runner returned for a recorded subprocess
ResultOf(c) ==
    RunGitCommand(c.args, [failed |-> c.failed, stdout |-> c.stdout,
                           stderr |-> c.stderr, procErr |-> c.procErr])

UpstreamClasses == {"Synced", "Ahead", "Behind", "Diverged", "NoUpstream", "Error"}

\* the upstream state a record reports
ReportClass(rec) ==
    CASE rec.upstreamStatus = " [No Upstream]" -> "NoUpstream"
      [] rec.upstreamStatus = " [Error]" -> "Error"
      [] rec.upstreamStatus = " [Error Parsing Revs]" -> "ParseError"
      [] OTHER -> CountClass(rec.ahead, rec.behind)

DirtyWord(dirty) == IF dirty THEN "Dirty" ELSE "Clean"

\* C26: the comparison query is run for every repository whatever its status
\* query gave, a failed status query included; the upstream classification and
\* the counts of a record are those computed from the comparison query's
\* result alone, so two successful comparisons with the same output are
\* classified alike whatever the dirty flags; the status line is the dirty
\* word followed by that classification; the status query of a repository can
\* give either dirty flag, and whatever flag it gave, the outcomes of the
\* comparison include one for each of Synced, Ahead, Behind, Diverged,
\* NoUpstream and Error, reported after the unchanged dirty word.
C26_IndependentAxes ==
    cmd = "status" =>
        /\ \A i \in 1..Len(records) :
              LET q == ResultOf(QueryCall(i))
                  r == ResultOf(CompareCall(i))
                  u == Upstream(r.output, r.err)
              IN  /\ CompareCall(i).args = RevListArgs(repos[i])
                  /\ records[i].isDirty = (q.err # "" \/ q.output # "")
                  /\ records[i].upstreamStatus = u.status
                  /\ records[i].ahead = u.ahead
                  /\ records[i].behind = u.behind
                  /\ records[i].finalStatus =
                        DirtyWord(records[i].isDirty) \o records[i].upstreamStatus
        /\ \A i, j \in 1..Len(records) :
              (/\ ~CompareCall(i).failed /\ ~CompareCall(j).failed
               /\ CompareCall(i).stdout = CompareCall(j).stdout) =>
                  /\ records[i].upstreamStatus = records[j].upstreamStatus
                  /\ records[i].ahead = records[j].ahead
                  /\ records[i].behind = records[j].behind
        /\ (pc = "loop" /\ idx <= Len(repos)) =>
              \A d \in BOOLEAN : \E res \in PorcelainOutcomes :
                  LET q == RunGitCommand(StatusArgs(repos[idx]), res)
                  IN  IsDirtyOf(q.output, q.err) = d
        /\ pc = "compare" => Len(calls) = 2 * idx - 1
        /\ (pc = "compare" /\ ~HasUpstreamPhrase(PathStr(repos[idx]))) =>
              \A class \in UpstreamClasses : \E res \in RevOutcomes :
                  LET r == RunGitCommand(RevListArgs(repos[idx]), res)
                      u == Upstream(r.output, r.err)
                  IN  /\ ReportClass([upstreamStatus |-> u.status, ahead |-> u.ahead,
                                      behind |-> u.behind]) = class
                      /\ FinalStatus(isDirty, u.status) = DirtyWord(isDirty) \o u.status

\* the first repository's status query failed and its comparison shows it
\* diverged; the second is clean and has no upstream
C26_Witness ==
    /\ StatusFinished /\ Len(records) = 2
    /\ QueryCall(1).failed
    /\ records[1].finalStatus = "Dirty [Ahead 4, Behind 1]"
    /\ ~QueryCall(2).failed
    /\ records[2].finalStatus = "Clean [No Upstream]"

(***************************************************************************)
(* The tool: any of its four commands, then Execute.                       *)
(***************************************************************************)
Next ==
    \/ Mkdir
    \/ CleanStart \/ ProbeMain \/ ProbeMaster \/ ListMerged \/ DeleteBranch \/ CleanSummary
    \/ StatusStart \/ StatusFind \/ StatusQuery \/ StatusCompare \/ StatusReturn
    \/ SyncStart \/ SyncFind \/ SyncRepo \/ SyncSummary
    \/ VersionRun
    \/ Execute

Spec == Init /\ [][Next]_vars

(***************************************************************************)
(* The tool with subprocesses that may never exit.  cmd.Run waits for the  *)
(* process without a timeout, so the handler stays inside the call.        *)
(***************************************************************************)
\* the handler's next step is a call of the runner
AtSubprocess ==
    \/ cmd = "clean" /\ pc \in {"probeMain", "probeMaster", "list"}
    \/ cmd = "clean" /\ pc = "delete" /\ idx <= Len(branchesToProcess)
          /\ RunsDelete(flags.dryRun)
    \/ cmd \in {"status", "sync"} /\ pc = "loop" /\ idx <= Len(repos)
    \/ cmd = "status" /\ pc = "compare"

\* the arguments of that call
PendingArgs ==
    CASE pc = "probeMain" -> <<"show-ref", "--verify", "--quiet", "refs/heads/main">>
      [] pc = "probeMaster" -> <<"show-ref", "--verify", "--quiet", "refs/heads/master">>
      [] pc = "list" -> <<"branch", "--merged", targetMainBranch>>
      [] pc = "delete" -> DeleteArgs(branchesToProcess[idx])
      [] pc = "compare" -> RevListArgs(repos[idx])
      [] pc = "loop" /\ cmd = "status" -> StatusArgs(repos[idx])
      [] pc = "loop" /\ cmd = "sync" -> SyncArgs(action, repos[idx])

\* a process that has been started and has not ended
Running == [failed |-> FALSE, stdout |-> "", stderr |-> "", procErr |-> ""]

\* the subprocess is started and never exits: the handler is blocked in cmd.Run
SubprocessHangs ==
    /\ AtSubprocess
    /\ calls' = Append(calls, CallOf(PendingArgs, Running))
    /\ pc' = "blocked"
    /\ UNCHANGED <<cmd, fs, root, flags, targetDir, action, repos, visited, idx,
                   stdoutLines, stderrLines, successCount, failCount, targetMainBranch,
                   branchesToProcess, isDirty, records, runErr, exitCode>>

\* the listings drawn when termination is checked: an empty one, one with a
\* single candidate and the example
ShortListing == calls[Len(calls)].stdout \in {"", "  x\n", ExampleListing}

\* the comparisons drawn when termination is checked: the failures, an empty
\* output and equal counts
ShortComparison ==
    LET c == calls[Len(calls)]
    IN  c.failed \/ c.stdout \in {"", "0\t0\n"}

\* a step of the handler whose subprocess, if it starts one, returns
Proceeds ==
    \/ Mkdir
    \/ CleanStart \/ ProbeMain \/ ProbeMaster \/ (ListMerged /\ ShortListing')
    \/ DeleteBranch \/ CleanSummary
    \/ StatusStart \/ StatusFind \/ StatusQuery \/ (StatusCompare /\ ShortComparison')
    \/ StatusReturn
    \/ SyncStart \/ SyncFind \/ SyncRepo \/ SyncSummary
    \/ VersionRun
    \/ Execute

NextLive == Proceeds \/ SubprocessHangs

\* the process keeps running while it has a step to take: a handler that is
\* not blocked in a subprocess goes on
SpecLive == Init /\ [][NextLive]_vars /\ WF_vars(Proceeds)

(***************************************************************************)
(* Claims about termination, checked under SpecLive.                       *)
(***************************************************************************)
\* the length of the command's work list and the subprocesses it allows
WorkBound ==
    IF cmd = "clean" THEN 3 + Len(branchesToProcess)
    ELSE IF cmd = "status" THEN 2 * Len(repos)
    ELSE Len(repos)

Blocked == pc = "blocked"

Terminated == pc = "done"

\* C25: a handler blocked in a subprocess that never exits stays blocked for
\* ever and never terminates; a run in which no subprocess hangs terminates;
\* and the number of subprocesses a run starts never exceeds the bound given
\* by its work list (for the cleaner the two probes, the listing and one
\* delete per candidate; two per repository for status; one for sync).
C25_Termination ==
    /\ [][~Blocked]_vars
    /\ [](Blocked => ~Terminated /\ exitCode = -1)
    /\ <>(Terminated \/ Blocked)
    /\ [](Len(calls) <= WorkBound)

\* sync blocked in the subprocess of its second repository
C25_Witness ==
    /\ Blocked /\ cmd = "sync"
    /\ Len(repos) = 2 /\ Len(calls) = 2
    /\ idx = 2
    /\ exitCode = -1

(***************************************************************************)
(* Claims about the tool as a whole, checked under Spec.                   *)
(***************************************************************************)
\* the top-level failures, told from what the run did
NoTargetDirectory == cmd \in {"status", "sync"} /\ targetDir = <<>>

InvalidAction == cmd = "sync" /\ ToLower(flags.action) \notin {"fetch", "pull"}

NoDefaultBranch ==
    /\ cmd = "clean" /\ flags.main = ""
    /\ Len(calls) = 2
    /\ IsProbeCall(calls[1]) /\ calls[1].failed
    /\ IsProbeCall(calls[2]) /\ calls[2].failed

ListingFailed == cmd = "clean" /\ Len(ListingCalls) = 1 /\ ListingCalls[1].failed

TopLevelFailure == NoTargetDirectory \/ InvalidAction \/ NoDefaultBranch \/ ListingFailed

\* the repository the k-th subprocess of a command works on, and its git command
RepoIndexOf(k) == IF cmd = "status" THEN (k + 1) \div 2 ELSE k

GitCommandOf(c) == c.args[3]

CallsPerRepo == IF cmd = "status" THEN 2 ELSE 1

\* C23: the subprocesses of status and sync, in the order they ran, go through
\* the repositories in list order: for status the status query then the
\* comparison of each repository, for sync the one command of each; no
\* subprocess is run twice, whatever failed, and a finished command has run
\* exactly two (status) or one (sync) per repository.
C23_SequentialCalls ==
    cmd \in {"status", "sync"} =>
        /\ Len(calls) <= CallsPerRepo * Len(repos)
        /\ \A k \in 1..Len(calls) :
              /\ calls[k].args[1] = "-C"
              /\ calls[k].args[2] = PathStr(repos[RepoIndexOf(k)])
              /\ cmd = "status" =>
                    GitCommandOf(calls[k]) = (IF k % 2 = 1 THEN "status" ELSE "rev-list")
              /\ cmd = "sync" => GitCommandOf(calls[k]) \in {"fetch", "pull"}
        /\ \A j, k \in 1..Len(calls) : calls[j].args = calls[k].args => j = k
        /\ (pc \in {"returned", "done"} /\ Len(repos) > 0) =>
              Len(calls) = CallsPerRepo * Len(repos)

\* a finished status run over two repositories: four subprocesses, the first
\* repository's two, both failed, before the second repository's two
C23_Witness ==
    /\ cmd = "status" /\ pc = "done"
    /\ Len(repos) = 2 /\ Len(calls) = 4
    /\ calls[1].failed /\ calls[2].failed
    /\ calls[2].args[2] = PathStr(repos[1])
    /\ calls[3].args[2] = PathStr(repos[2])
    /\ GitCommandOf(calls[3]) = "status" /\ GitCommandOf(calls[4]) = "rev-list"

\* status or sync has called the Locator on a root that does not exist or
\* cannot be read, and the handler has returned
ScanRootFailed ==
    /\ cmd \in {"status", "sync"}
    /\ pc \in {"returned", "done"}
    /\ visited # <<>>
    /\ (root \notin DOMAIN fs \/ fs[root] = "noperm")

NoReposLine == "No Git repositories found in the specified directory."

\* C20: when the scan root does not exist or cannot be read, status and sync
\* return the error "error finding repositories: ..." and exit 1, and do not
\* print that no repositories were found.
C20_WalkErrorReturned ==
    ScanRootFailed =>
        /\ HasPrefix(runErr, "error finding repositories")
        /\ Occurrences(stdoutLines, NoReposLine) = 0
        /\ pc = "done" => exitCode = 1

\* what the code does instead: the Locator never returns an error to status or sync
C20_LocatorNeverFails ==
    cmd \in {"status", "sync"} => ~HasPrefix(runErr, "error finding repositories")

\* status on a directory that does not exist: one warning, the line that no
\* repositories were found, exit status 0
C20_MissingRootReported ==
    /\ ScanRootFailed /\ cmd = "status" /\ pc = "done"
    /\ root \notin DOMAIN fs
    /\ stderrLines = <<"Warning: Error accessing path \"" \o PathStr(root)
                        \o "\": lstat " \o PathStr(root) \o ": no such file or directory">>
    /\ stdoutLines = <<"Scanning directory: " \o PathStr(root), NoReposLine>>
    /\ runErr = ""
    /\ exitCode = 0

\* the scan root is a directory with one of the excluded names
RootExcluded == root \in DOMAIN fs /\ IsDir(fs[root]) /\ Base(root) \in ExcludedNames

\* status or sync has called the Locator
Scanned == cmd \in {"status", "sync"} /\ pc \notin {"setup", "find"} /\ visited # <<>>

\* a tree that is only the root and a metadata folder in it
RepoAt(r) == (r :> "dir") @@ (Append(r, ".git") :> "dir")

\* C28: when the scan root is itself a directory named vendor, node_modules,
\* target or build, the Locator visits the root only and returns an empty
\* list with no error and no warning, even with a repository beneath the
\* root; status and sync then print that no repositories were found, run no
\* git subprocess and end with exit status 0.
C28_ExcludedRootSkipped ==
    /\ (Scanned /\ RootExcluded) =>
          /\ visited = <<root>>
          /\ repos = <<>>
          /\ stderrLines = <<>>
          /\ runErr = ""
          /\ calls = <<>>
          /\ stdoutLines # <<>> /\ stdoutLines[Len(stdoutLines)] = NoReposLine
          /\ pc \in {"returned", "done"}
          /\ pc = "done" => exitCode = 0
    /\ pc = "find" =>
          \A n \in ExcludedNames :
              FindGitRepos(RepoAt(<<"w", n>>), <<"w", n>>) =
                  [repos |-> <<>>, err |-> "", visited |-> <<(<<"w", n>>)>>,
                   warnings |-> <<>>]

\* sync on /w/vendor, which holds a repository of its own
C28_Witness ==
    /\ Scanned /\ RootExcluded
    /\ cmd = "sync" /\ pc = "done"
    /\ root = <<"w", "vendor">>
    /\ <<"w", "vendor", ".git">> \in DOMAIN fs
    /\ fs[<<"w", "vendor", ".git">>] = "dir"
    /\ repos = <<>>
    /\ exitCode = 0

\* C10: a finished run exits 1 when a top-level failure occurred and 0
\* otherwise, whatever the git subprocesses on repositories or branches did.
C10_ExitCode ==
    pc = "done" => exitCode = (IF TopLevelFailure THEN 1 ELSE 0)

\* a sync run in which both repositories failed exits 0
C10_Witness ==
    /\ cmd = "sync" /\ pc = "done"
    /\ Len(repos) = 2
    /\ Len(calls) = 2 /\ calls[1].failed /\ calls[2].failed
    /\ failCount = 2 /\ successCount = 0
    /\ exitCode = 0

====
